---- MODULE Spec2Model ----
(***************************************************************************)
(* Case Lifecycle & Compliance Engine of LN-backend.                       *)
(*                                                                         *)
(* The MongoDB collections are the shared state; every request handler is  *)
(* a process whose position (pc) and local variables live in req[p].  One  *)
(* step of a handler is one database call together with the synchronous    *)
(* code that follows it up to the next await.                              *)
(* The AuditLog collection and the Cloudinary object store are written by  *)
(* some handlers but read by none of the modelled operations; they are not *)
(* part of the state.                                                      *)
(***************************************************************************)
EXTENDS Integers, Sequences, FiniteSets, TLC

VARIABLES docs, cases, timeline, notifications, req, now, slaResult,
          ntemplates, internalNotes, workflowTemplates

vars == <<docs, cases, timeline, notifications, req, now, slaResult,
          ntemplates, internalNotes, workflowTemplates>>

(***************************************************************************)
(* Bounds of the model.                                                    *)
(***************************************************************************)
MaxDocs == 3
MaxTime == 2
MaxNotifications == 2
MaxHour == 30
MaxEvents == 3
MaxNotes == 1

NULL == "null"
\* A nullable Date field is <<>> (null) or <<t>> (the instant t).
NoDate == <<>>
Date(t) == <<t>>

Procs == {"p1", "p2"}
CaseIds == {"c1"}
DocTypes == {"pan", "aadhaar"}

(***************************************************************************)
(* Users and their roles (req.user).  emp1 is the employee assigned to the *)
(* case, emp2 another employee, user1 the end user who owns the case.      *)
(***************************************************************************)
userRole == [emp1 |-> "employee", emp2 |-> "employee", user1 |-> "end_user"]
Uploaders == {"user1", "emp2"}
DocActors == {"emp1", "user1"}
CaseActors == {"emp1", "emp2"}

CASE_STATUS == [NEW |-> "new", IN_PROGRESS |-> "in_progress",
                COMPLETED |-> "completed", CANCELLED |-> "cancelled"]
CaseStatusEnum == {CASE_STATUS.NEW, CASE_STATUS.IN_PROGRESS,
                   CASE_STATUS.COMPLETED, CASE_STATUS.CANCELLED}

(***************************************************************************)
(* The collaborators the handlers read and never write: the service of the *)
(* case with its documentsRequired list, and the workflow template with    *)
(* the estimated duration (hours) of each of its steps.                    *)
(***************************************************************************)
services ==
    [s1 |-> [documentsRequired |-> <<"pan", "aadhaar">>],
     s2 |-> [documentsRequired |-> <<>>]]
\* WorkflowTemplate documents; totalEstimatedDuration is the sum of the steps'
\* estimatedDuration, in hours, as the pre-save hook stores it.
templates ==
    [t1 |-> [steps |-> <<24, 24>>, totalEstimatedDuration |-> 48],
     t2 |-> [steps |-> <<>>, totalEstimatedDuration |-> 0]]

SeqToSet(s) == {s[i] : i \in 1..Len(s)}

(***************************************************************************)
(* DocumentVersion collection.                                             *)
(***************************************************************************)
MetadataSchemaKeys == {"originalFileName", "fileSize", "mimeType", "format"}

\* Mongoose strict mode: keys of a nested object that the schema does not
\* declare are dropped when the document is built.
SchemaCastMetadata(m) == [k \in (DOMAIN m) \cap MetadataSchemaKeys |-> m[k]]

NewDocumentVersion(data) ==
    [caseId |-> data.caseId,
     documentType |-> data.documentType,
     version |-> data.version,
     fileUrl |-> data.fileUrl,
     cloudinaryPublicId |-> data.cloudinaryPublicId,
     uploadedBy |-> data.uploadedBy,
     status |-> "active",
     metadata |-> SchemaCastMetadata(data.metadata),
     notes |-> data.notes,
     verificationStatus |-> "pending",
     verifiedBy |-> NULL,
     rejectionReason |-> NULL]

RowsOf(d, c, t) == {i \in 1..Len(d) : d[i].caseId = c /\ d[i].documentType = t}

MaxOf(S) == CHOOSE x \in S : \A y \in S : y <= x

\* The deleted rows left out of the query.
getLatestVersion_notDeleted(d, c, t) ==
    LET rows == {i \in RowsOf(d, c, t) : d[i].status # "deleted"}
    IN IF rows = {} THEN 0 ELSE MaxOf({d[i].version : i \in rows})

getLatestVersion(d, c, t) ==
    IF RowsOf(d, c, t) = {} THEN 0
    ELSE MaxOf({d[i].version : i \in RowsOf(d, c, t)})

\* $lte in place of $lt: the new row demotes itself.
markPreviousAsSuperseded_lte(d, id) ==
    [i \in 1..Len(d) |->
        IF /\ d[i].caseId = d[id].caseId
           /\ d[i].documentType = d[id].documentType
           /\ d[i].version <= d[id].version
           /\ d[i].status = "active"
        THEN [d[i] EXCEPT !.status = "superseded"]
        ELSE d[i]]

markPreviousAsSuperseded(d, id) ==
    [i \in 1..Len(d) |->
        IF /\ d[i].caseId = d[id].caseId
           /\ d[i].documentType = d[id].documentType
           /\ d[i].version < d[id].version
           /\ d[i].status = "active"
        THEN [d[i] EXCEPT !.status = "superseded"]
        ELSE d[i]]

ActiveRows(d, c, t) == {i \in RowsOf(d, c, t) : d[i].status = "active"}

\* find({caseId, status: active}).sort({version: -1}); the first document of
\* each type wins.  Among active rows of equal version the store returns
\* either one.
getDocumentStatus(d, c, documentsRequired) ==
    [n \in 1..Len(documentsRequired) |->
        LET t == documentsRequired[n]
            act == ActiveRows(d, c, t)
            top == {i \in act : \A j \in act : d[j].version <= d[i].version}
        IN IF act = {}
           THEN [documentName |-> t, isUploaded |-> FALSE, latestVersion |-> NULL]
           ELSE LET i == CHOOSE i \in top : TRUE
                IN [documentName |-> t, isUploaded |-> TRUE,
                    latestVersion |-> [version |-> d[i].version,
                                       fileUrl |-> d[i].fileUrl,
                                       metadata |-> d[i].metadata]]]

(***************************************************************************)
(* Case collection.                                                        *)
(***************************************************************************)
NewCase(endUser, service) ==
    [endUserId |-> endUser,
     serviceId |-> service,
     employeeId |-> NULL,
     status |-> CASE_STATUS.NEW,
     currentStep |-> 0,
     completedAt |-> NoDate,
     workflowTemplateId |-> NULL,
     slaDeadline |-> NoDate,
     slaStatus |-> "not_set",
     reopenCount |-> 0,
     lastActivityAt |-> 0,
     assignedAt |-> NoDate,
     createdAt |-> 0,
     checklistProgress |-> <<>>,
     __v |-> 0]

AtRiskHours == 24

\* hoursRemaining < 24 in place of <= 24.
checkSLAStatus_lt(caseItem, t) ==
    IF caseItem.slaDeadline = NoDate THEN "not_set"
    ELSE LET deadline == caseItem.slaDeadline[1]
             hoursRemaining == deadline - t
         IN IF t > deadline THEN "breached"
            ELSE IF hoursRemaining < AtRiskHours THEN "at_risk"
            ELSE "on_time"

\* checkSLAStatus(caseItem) at clock value t; times are in hours.
checkSLAStatus(caseItem, t) ==
    IF caseItem.slaDeadline = NoDate THEN "not_set"
    ELSE LET deadline == caseItem.slaDeadline[1]
             hoursRemaining == deadline - t
         IN IF t > deadline THEN "breached"
            ELSE IF hoursRemaining <= AtRiskHours THEN "at_risk"
            ELSE "on_time"

(***************************************************************************)
(* Requests.                                                               *)
(***************************************************************************)
\* Values of the locals a handler has not assigned yet.
NoVersion ==
    [NewDocumentVersion([caseId |-> NULL, documentType |-> NULL, version |-> 0,
                         fileUrl |-> 0, cloudinaryPublicId |-> 0, uploadedBy |-> NULL,
                         metadata |-> [originalFileName |-> 0], notes |-> <<>>])
        EXCEPT !.status = NULL]
NoCase == [NewCase(NULL, NULL) EXCEPT !.status = NULL]
NoBody == [status |-> "undefined", currentStep |-> <<>>]

IdleReq ==
    [op |-> "none", pc |-> "idle", res |-> 0, user |-> NULL,
     caseId |-> NULL, documentType |-> NULL, file |-> 0,
     versionId |-> 0, version |-> NoVersion, caseItem |-> NoCase,
     latestVersion |-> 0, newId |-> 0, body |-> NoBody,
     activeCases |-> <<>>, updatedCount |-> 0, alerts |-> 0, data |-> <<>>,
     verificationStatus |-> NULL, rejectionReason |-> NULL, employeeId |-> NULL,
     deadline |-> NoDate, item |-> <<>>,
     userView |-> FALSE, options |-> <<>>,
     templateId |-> NULL, template |-> <<>>, steps |-> <<>>]

Idle(p) == req[p].pc = "idle"

\* return res.status(code).json(...): the handler is about to answer.
Answer(p, handler, code) ==
    req' = [req EXCEPT ![p] = [IdleReq EXCEPT !.op = handler, !.pc = "respond", !.res = code]]

createEvent(tl, ev) == Append(tl, ev)

(***************************************************************************)
(* documentVersionController.                                              *)
(***************************************************************************)
DocTypeInputs == DocTypes \cup {"other"}
CaseIdInputs == CaseIds \cup {"c0"}

\* Requests that will still insert a DocumentVersion row.
Creating == {p \in Procs : req[p].pc \in {"up_getLatest", "up_create",
                                           "rs_findCase", "rs_getLatest", "rs_create"}}

\* req.file: the object store gives every uploaded file a path and a public
\* id of its own (0: the request carries no file).
FreshFile == Len(docs) + Cardinality(Creating) + 1
FileInputs == {0, FreshFile}

isAuthorizedStaff(u, caseItem) ==
    \/ userRole[u] = "admin"
    \/ userRole[u] = "employee" /\ caseItem.employeeId = u

\* The test of documentType left out.
uploadVersion_findCase_anyType(p) ==
    \E u \in Uploaders, c \in CaseIdInputs, t \in DocTypeInputs, f \in FileInputs :
        /\ Idle(p)
        /\ Len(docs) + Cardinality(Creating) < MaxDocs
        /\ UNCHANGED <<docs, cases, timeline, notifications, now, slaResult, ntemplates, internalNotes,
                       workflowTemplates>>
        /\ IF c \notin DOMAIN cases THEN Answer(p, "uploadVersion", 404)
           ELSE LET caseItem == cases[c]
                    isEndUser == userRole[u] = "end_user" /\ caseItem.endUserId = u
                    isEmployee == userRole[u] = "employee" /\ caseItem.employeeId = u
                    isAdmin == userRole[u] = "admin"
                    service == services[caseItem.serviceId]
                IN IF ~isEndUser /\ ~isEmployee /\ ~isAdmin THEN Answer(p, "uploadVersion", 403)
                   ELSE IF f = 0 THEN Answer(p, "uploadVersion", 400)
                   ELSE req' = [req EXCEPT ![p] =
                            [IdleReq EXCEPT !.op = "uploadVersion", !.pc = "up_getLatest",
                                            !.user = u, !.caseId = c, !.documentType = t,
                                            !.file = f, !.caseItem = caseItem]]

\* The answer to a refused documentType carries allowedDocuments.
uploadVersion_findCase(p) ==
    \E u \in Uploaders, c \in CaseIdInputs, t \in DocTypeInputs, f \in FileInputs :
        /\ Idle(p)
        /\ Len(docs) + Cardinality(Creating) < MaxDocs
        /\ UNCHANGED <<docs, cases, timeline, notifications, now, slaResult, ntemplates, internalNotes,
                       workflowTemplates>>
        /\ IF c \notin DOMAIN cases THEN Answer(p, "uploadVersion", 404)
           ELSE LET caseItem == cases[c]
                    isEndUser == userRole[u] = "end_user" /\ caseItem.endUserId = u
                    isEmployee == userRole[u] = "employee" /\ caseItem.employeeId = u
                    isAdmin == userRole[u] = "admin"
                    service == services[caseItem.serviceId]
                IN IF ~isEndUser /\ ~isEmployee /\ ~isAdmin THEN Answer(p, "uploadVersion", 403)
                   ELSE IF /\ Len(service.documentsRequired) > 0
                           /\ t \notin SeqToSet(service.documentsRequired)
                        THEN req' = [req EXCEPT ![p] =
                                 [IdleReq EXCEPT !.op = "uploadVersion", !.pc = "respond",
                                                 !.res = 400, !.caseId = c,
                                                 !.documentType = t,
                                                 !.data = service.documentsRequired]]
                   ELSE IF f = 0 THEN Answer(p, "uploadVersion", 400)
                   ELSE req' = [req EXCEPT ![p] =
                            [IdleReq EXCEPT !.op = "uploadVersion", !.pc = "up_getLatest",
                                            !.user = u, !.caseId = c, !.documentType = t,
                                            !.file = f, !.caseItem = caseItem]]

uploadVersion_getLatest(p) ==
    /\ req[p].pc = "up_getLatest"
    /\ req' = [req EXCEPT ![p].latestVersion =
                   getLatestVersion(docs, req[p].caseId, req[p].documentType),
                          ![p].pc = "up_create"]
    /\ UNCHANGED <<docs, cases, timeline, notifications, now, slaResult, ntemplates, internalNotes,
                   workflowTemplates>>

uploadVersion_create(p) ==
    /\ req[p].pc = "up_create"
    /\ docs' = Append(docs, NewDocumentVersion(
                   [caseId |-> req[p].caseId,
                    documentType |-> req[p].documentType,
                    version |-> req[p].latestVersion + 1,
                    fileUrl |-> req[p].file,
                    cloudinaryPublicId |-> req[p].file,
                    uploadedBy |-> req[p].user,
                    metadata |-> [originalFileName |-> req[p].file],
                    notes |-> <<>>]))
    /\ req' = [req EXCEPT ![p].newId = Len(docs) + 1, ![p].pc = "up_mark"]
    /\ UNCHANGED <<cases, timeline, notifications, now, slaResult, ntemplates, internalNotes,
                   workflowTemplates>>

uploadVersion_mark(p) ==
    /\ req[p].pc = "up_mark"
    /\ docs' = markPreviousAsSuperseded(docs, req[p].newId)
    /\ req' = [req EXCEPT ![p].pc = "up_event"]
    /\ UNCHANGED <<cases, timeline, notifications, now, slaResult, ntemplates, internalNotes,
                   workflowTemplates>>

uploadVersion_event(p) ==
    /\ req[p].pc = "up_event"
    /\ timeline' = createEvent(timeline,
                       [caseId |-> req[p].caseId, eventType |-> "document_uploaded",
                        isVisibleToUser |-> TRUE])
    /\ req' = [req EXCEPT ![p].pc = "up_activity"]
    /\ UNCHANGED <<docs, cases, notifications, now, slaResult, ntemplates, internalNotes,
                   workflowTemplates>>

\* caseItem.updateActivity(): save() writes the one modified path.
uploadVersion_activity(p) ==
    /\ req[p].pc = "up_activity"
    /\ cases' = [cases EXCEPT ![req[p].caseId].lastActivityAt = now]
    /\ req' = [req EXCEPT ![p].pc = "respond", ![p].res = 201]
    /\ UNCHANGED <<docs, timeline, notifications, now, slaResult, ntemplates, internalNotes,
                   workflowTemplates>>

uploadVersion(p) ==
    \/ uploadVersion_findCase(p)
    \/ uploadVersion_getLatest(p)
    \/ uploadVersion_create(p)
    \/ uploadVersion_mark(p)
    \/ uploadVersion_event(p)
    \/ uploadVersion_activity(p)

\* ids a request can name: every stored row and one id that does not exist
VersionIdInputs == 0..Len(docs)

restoreVersion_findOld(p) ==
    \E u \in DocActors, id \in VersionIdInputs :
        /\ Idle(p)
        /\ Len(docs) + Cardinality(Creating) < MaxDocs
        /\ UNCHANGED <<docs, cases, timeline, notifications, now, slaResult, ntemplates, internalNotes,
                       workflowTemplates>>
        /\ IF id \notin 1..Len(docs) THEN Answer(p, "restoreVersion", 404)
           ELSE req' = [req EXCEPT ![p] =
                    [IdleReq EXCEPT !.op = "restoreVersion", !.pc = "rs_findCase",
                                    !.user = u, !.versionId = id, !.version = docs[id]]]

restoreVersion_findCase(p) ==
    /\ req[p].pc = "rs_findCase"
    /\ UNCHANGED <<docs, cases, timeline, notifications, now, slaResult, ntemplates, internalNotes,
                   workflowTemplates>>
    /\ LET caseItem == cases[req[p].version.caseId]
       IN IF ~isAuthorizedStaff(req[p].user, caseItem) THEN Answer(p, "restoreVersion", 403)
          ELSE req' = [req EXCEPT ![p].caseItem = caseItem, ![p].pc = "rs_getLatest"]

restoreVersion_getLatest(p) ==
    /\ req[p].pc = "rs_getLatest"
    /\ req' = [req EXCEPT ![p].latestVersion =
                   getLatestVersion(docs, req[p].version.caseId, req[p].version.documentType),
                          ![p].pc = "rs_create"]
    /\ UNCHANGED <<docs, cases, timeline, notifications, now, slaResult, ntemplates, internalNotes,
                   workflowTemplates>>

restoreVersion_create(p) ==
    /\ req[p].pc = "rs_create"
    /\ LET oldVersion == req[p].version
       IN docs' = Append(docs, NewDocumentVersion(
                   [caseId |-> oldVersion.caseId,
                    documentType |-> oldVersion.documentType,
                    version |-> req[p].latestVersion + 1,
                    fileUrl |-> oldVersion.fileUrl,
                    cloudinaryPublicId |-> oldVersion.cloudinaryPublicId,
                    uploadedBy |-> req[p].user,
                    metadata |-> [k \in DOMAIN oldVersion.metadata \cup {"restoredFrom"} |->
                                     IF k = "restoredFrom" THEN oldVersion.version
                                     ELSE oldVersion.metadata[k]],
                    notes |-> <<"Restored from version", oldVersion.version>>]))
    /\ req' = [req EXCEPT ![p].newId = Len(docs) + 1, ![p].pc = "rs_mark"]
    /\ UNCHANGED <<cases, timeline, notifications, now, slaResult, ntemplates, internalNotes,
                   workflowTemplates>>

restoreVersion_mark(p) ==
    /\ req[p].pc = "rs_mark"
    /\ docs' = markPreviousAsSuperseded(docs, req[p].newId)
    /\ req' = [req EXCEPT ![p].pc = "rs_event"]
    /\ UNCHANGED <<cases, timeline, notifications, now, slaResult, ntemplates, internalNotes,
                   workflowTemplates>>

restoreVersion_event(p) ==
    /\ req[p].pc = "rs_event"
    /\ timeline' = createEvent(timeline,
                       [caseId |-> req[p].version.caseId, eventType |-> "document_uploaded",
                        isVisibleToUser |-> FALSE])
    /\ req' = [req EXCEPT ![p].pc = "respond", ![p].res = 201]
    /\ UNCHANGED <<docs, cases, notifications, now, slaResult, ntemplates, internalNotes,
                   workflowTemplates>>

restoreVersion(p) ==
    \/ restoreVersion_findOld(p)
    \/ restoreVersion_findCase(p)
    \/ restoreVersion_getLatest(p)
    \/ restoreVersion_create(p)
    \/ restoreVersion_mark(p)
    \/ restoreVersion_event(p)

deleteVersion_findVersion(p) ==
    \E u \in DocActors, id \in VersionIdInputs :
        /\ Idle(p)
        /\ UNCHANGED <<docs, cases, timeline, notifications, now, slaResult, ntemplates, internalNotes,
                       workflowTemplates>>
        /\ IF id \notin 1..Len(docs) THEN Answer(p, "deleteVersion", 404)
           ELSE req' = [req EXCEPT ![p] =
                    [IdleReq EXCEPT !.op = "deleteVersion", !.pc = "dl_findCase",
                                    !.user = u, !.versionId = id,
                                    !.caseId = docs[id].caseId]]

deleteVersion_findCase(p) ==
    /\ req[p].pc = "dl_findCase"
    /\ UNCHANGED <<docs, cases, timeline, notifications, now, slaResult, ntemplates, internalNotes,
                   workflowTemplates>>
    /\ LET caseItem == cases[req[p].caseId]
       IN IF ~isAuthorizedStaff(req[p].user, caseItem) THEN Answer(p, "deleteVersion", 403)
          ELSE req' = [req EXCEPT ![p].pc = "dl_save"]

\* version.status = 'deleted'; version.save() writes the status path.
deleteVersion_save(p) ==
    /\ req[p].pc = "dl_save"
    /\ docs' = [docs EXCEPT ![req[p].versionId].status = "deleted"]
    /\ req' = [req EXCEPT ![p].pc = "respond", ![p].res = 200]
    /\ UNCHANGED <<cases, timeline, notifications, now, slaResult, ntemplates, internalNotes,
                   workflowTemplates>>

deleteVersion(p) ==
    \/ deleteVersion_findVersion(p)
    \/ deleteVersion_findCase(p)
    \/ deleteVersion_save(p)

\* res.status(code).json(...): the handler returns.
respond(p) ==
    /\ req[p].pc = "respond"
    /\ req' = [req EXCEPT ![p] = IdleReq]
    /\ UNCHANGED <<docs, cases, timeline, notifications, now, slaResult, ntemplates, internalNotes,
                   workflowTemplates>>

(***************************************************************************)
(* employeeController.updateCaseStatus.                                    *)
(***************************************************************************)
StatusInputs == CaseStatusEnum \cup {"undefined"}
StepInputs == {<<>>} \cup {<<n>> : n \in 0..(Len(templates["t1"].steps) + 1)}

\* Notification.create and the inserts of the other handlers stop at the bounds.
updateCaseStatus_findCase(p) ==
    \E u \in CaseActors, c \in CaseIdInputs, st \in StatusInputs, cs \in StepInputs :
        /\ Idle(p)
        /\ Len(notifications) < MaxNotifications
        /\ UNCHANGED <<docs, cases, timeline, notifications, now, slaResult, ntemplates, internalNotes,
                       workflowTemplates>>
        /\ IF c \notin DOMAIN cases THEN Answer(p, "updateCaseStatus", 404)
           ELSE IF cases[c].employeeId = NULL THEN Answer(p, "updateCaseStatus", 500)
           ELSE IF cases[c].employeeId # u THEN Answer(p, "updateCaseStatus", 403)
           ELSE req' = [req EXCEPT ![p] =
                    [IdleReq EXCEPT !.op = "updateCaseStatus", !.pc = "ucs_save",
                                    !.user = u, !.caseId = c, !.caseItem = cases[c],
                                    !.body = [status |-> st, currentStep |-> cs]]]

\* The assignments to caseItem followed by caseItem.save(), which writes the
\* paths whose value changed.  req[p].caseItem stays the document as read:
\* the assigned values are functions of it and of the request body.
updateCaseStatus_save(p) ==
    /\ req[p].pc = "ucs_save"
    /\ LET old == req[p].caseItem
           body == req[p].body
           status == IF body.status # "undefined" THEN body.status ELSE old.status
           currentStep == IF body.currentStep # <<>> THEN body.currentStep[1]
                          ELSE old.currentStep
           completedAt == IF body.status = CASE_STATUS.COMPLETED THEN Date(now)
                          ELSE old.completedAt
           stored == cases[req[p].caseId]
           saved == [stored EXCEPT
                        !.status = IF status # old.status THEN status ELSE @,
                        !.currentStep = IF currentStep # old.currentStep
                                        THEN currentStep ELSE @,
                        !.completedAt = IF completedAt # old.completedAt
                                        THEN completedAt ELSE @]
       IN /\ cases' = [cases EXCEPT ![req[p].caseId] = saved]
          /\ req' = [req EXCEPT ![p].pc = "ucs_notify"]
    /\ UNCHANGED <<docs, timeline, notifications, now, slaResult, ntemplates, internalNotes,
                   workflowTemplates>>

\* Service.findById, then Notification.create for the end user.
updateCaseStatus_notify(p) ==
    /\ req[p].pc = "ucs_notify"
    /\ LET status == req[p].body.status
           statusText == IF status = CASE_STATUS.COMPLETED THEN "completed"
                         ELSE IF status = CASE_STATUS.IN_PROGRESS THEN "updated"
                         ELSE "started"
       IN notifications' = Append(notifications,
              [recipientId |-> req[p].caseItem.endUserId,
               type |-> "in_app",
               title |-> statusText,
               relatedCaseId |-> req[p].caseId])
    /\ req' = [req EXCEPT ![p].pc = "respond", ![p].res = 200]
    /\ UNCHANGED <<docs, cases, timeline, now, slaResult, ntemplates, internalNotes,
                   workflowTemplates>>

updateCaseStatus(p) ==
    \/ updateCaseStatus_findCase(p)
    \/ updateCaseStatus_save(p)
    \/ updateCaseStatus_notify(p)

\* The wall clock, in hours.
Tick ==
    /\ now < MaxTime
    /\ now' = now + 1
    /\ UNCHANGED <<docs, cases, timeline, notifications, req, slaResult, ntemplates, internalNotes,
                   workflowTemplates>>

\* The case as the store holds it after construction: created at payment
\* confirmation, assigned to emp1 by assignCase, template attached.
InitCase ==
    [NewCase("user1", "s1") EXCEPT !.employeeId = "emp1",
                                    !.assignedAt = Date(0),
                                    !.workflowTemplateId = "t1"]

Init ==
    /\ docs = <<>>
    /\ cases = [c \in CaseIds |-> InitCase]
    /\ timeline = <<>>
    /\ notifications = <<>>
    /\ req = [p \in Procs |-> IdleReq]
    /\ now = 0
    /\ slaResult = <<>>
    /\ ntemplates = {}
    /\ internalNotes = <<>>
    /\ workflowTemplates = templates

DocStep(p) == uploadVersion(p) \/ restoreVersion(p) \/ deleteVersion(p) \/ respond(p)

\* Requests of several clients interleave at every database call.
Next == \E p \in Procs : DocStep(p)

Spec == Init /\ [][Next]_vars

\* One request at a time: a handler runs from its first step to its answer
\* before the next request arrives.
NextSeq == \E p \in Procs : (\A q \in Procs \ {p} : Idle(q)) /\ DocStep(p)

SpecSeq == Init /\ [][NextSeq]_vars

\* Two uploads of the same document arrive while version 1 is stored.
InitRace ==
    /\ docs = <<NewDocumentVersion(
                   [caseId |-> "c1", documentType |-> "pan", version |-> 1,
                    fileUrl |-> 1, cloudinaryPublicId |-> 1, uploadedBy |-> "user1",
                    metadata |-> [originalFileName |-> 1], notes |-> <<>>])>>
    /\ cases = [c \in CaseIds |-> InitCase]
    /\ timeline = <<[caseId |-> "c1", eventType |-> "document_uploaded",
                     isVisibleToUser |-> TRUE]>>
    /\ notifications = <<>>
    /\ req = [p \in Procs |-> IdleReq]
    /\ now = 0
    /\ slaResult = <<>>
    /\ ntemplates = {}
    /\ internalNotes = <<>>
    /\ workflowTemplates = templates

NextRace == \E p \in Procs : uploadVersion(p) \/ respond(p)

SpecRace == InitRace /\ [][NextRace]_vars

\* Status updates, one request at a time, while the clock advances between
\* requests.
NextCase ==
    \/ \E p \in Procs : (\A q \in Procs \ {p} : Idle(q)) /\ (updateCaseStatus(p) \/ respond(p))
    \/ (\A q \in Procs : Idle(q)) /\ Tick

SpecCase == Init /\ [][NextCase]_vars

\* checkSLAStatus on every clock value and every deadline.
InitClassify ==
    /\ docs = <<>>
    /\ now \in 0..MaxHour
    /\ \E d \in {NoDate} \cup {Date(h) : h \in 0..MaxHour} :
           cases = [c \in CaseIds |-> [InitCase EXCEPT !.slaDeadline = d]]
    /\ timeline = <<>>
    /\ notifications = <<>>
    /\ req = [p \in Procs |-> IdleReq]
    /\ slaResult = <<>>
    /\ ntemplates = {}
    /\ internalNotes = <<>>
    /\ workflowTemplates = templates

CheckSLA ==
    /\ slaResult = <<>>
    /\ slaResult' = <<checkSLAStatus(cases["c1"], now)>>
    /\ UNCHANGED <<docs, cases, timeline, notifications, req, now, ntemplates, internalNotes,
                   workflowTemplates>>

NextClassify == CheckSLA

SpecClassify == InitClassify /\ [][NextClassify]_vars

(***************************************************************************)
(* Properties.                                                             *)
(***************************************************************************)
AllIdle == \A p \in Procs : Idle(p)
Pairs == CaseIds \X DocTypes
NumActive(c, t) == Cardinality(ActiveRows(docs, c, t))
VersionsOf(c, t, v) == {i \in RowsOf(docs, c, t) : docs[i].version = v}

\* C1: in every reachable state every (caseId, documentType) pair has at most
\* one DocumentVersion row with status = active.
C1_AtMostOneActive ==
    \A k \in Pairs : NumActive(k[1], k[2]) <= 1

\* C2: two uploads of the same pair that arrive while only version 1 is stored
\* end with exactly one row of version 2 and one of version 3, and exactly one
\* active row, the highest version.
C2_ConcurrentUploadsSerialize ==
    \A k \in Pairs :
        (AllIdle /\ Cardinality(RowsOf(docs, k[1], k[2])) = 3) =>
            /\ \A v \in 1..3 : Cardinality(VersionsOf(k[1], k[2], v)) = 1
            /\ ActiveRows(docs, k[1], k[2]) = VersionsOf(k[1], k[2], 3)

\* A step that soft-deletes a row.
DeletesRow ==
    \E i \in 1..Len(docs) : docs[i].status # "deleted" /\ docs'[i].status = "deleted"

\* C3: creation and demotion are indivisible: for a pair that has an active
\* version, no step of an upload or a restore leaves the store with two active
\* rows of the pair or with none.
C3_ReaderSeesOneActive ==
    [][\A k \in Pairs :
          (NumActive(k[1], k[2]) = 1 /\ ~DeletesRow) =>
              Cardinality(ActiveRows(docs', k[1], k[2])) = 1]_vars

\* C4: after N >= 1 sequential uploads of a pair and no deletion, the rows of
\* the pair carry the versions 1..N, the row of version N is active and every
\* other row is superseded.
C4_SequentialUploads ==
    \A k \in Pairs :
        LET rows == RowsOf(docs, k[1], k[2])
            N == Cardinality(rows)
        IN (AllIdle /\ N >= 1 /\ \A i \in rows : docs[i].status # "deleted") =>
               /\ \A v \in 1..N : Cardinality(VersionsOf(k[1], k[2], v)) = 1
               /\ \A i \in rows : docs[i].status =
                      IF docs[i].version = N THEN "active" ELSE "superseded"

C4_Witness ==
    /\ AllIdle
    /\ \E k \in Pairs :
           LET rows == RowsOf(docs, k[1], k[2])
           IN /\ Cardinality(rows) >= 3
              /\ \A i \in rows : docs[i].status # "deleted" /\ docs[i].notes = <<>>

\* C5: a restore of an old row on a pair whose highest version is N creates
\* version N+1 with the old row's fileUrl and cloudinaryPublicId and with
\* metadata.restoredFrom = old.version; the new row is then the only active
\* row of the pair, getDocumentStatus reports it, and the old row has the
\* status it had before the restore.
C5_RestoreCreatesNextVersion ==
    \A p \in Procs :
        (req[p].op = "restoreVersion" /\ req[p].pc = "respond" /\ req[p].res = 201) =>
            LET old == req[p].version
                new == docs[req[p].newId]
                c == old.caseId
                t == old.documentType
                others == RowsOf(docs, c, t) \ {req[p].newId}
                N == MaxOf({docs[i].version : i \in others})
                reported == getDocumentStatus(docs, c, <<t>>)[1]
            IN /\ new.version = N + 1
               /\ new.fileUrl = old.fileUrl
               /\ new.cloudinaryPublicId = old.cloudinaryPublicId
               /\ "restoredFrom" \in DOMAIN new.metadata
               /\ new.metadata["restoredFrom"] = old.version
               /\ ActiveRows(docs, c, t) = {req[p].newId}
               /\ reported.isUploaded
               /\ reported.latestVersion.version = new.version
               /\ docs[req[p].versionId].status = old.status

AllowedTransitions ==
    {<<"new", "in_progress">>, <<"new", "completed">>, <<"new", "cancelled">>,
     <<"in_progress", "completed">>, <<"in_progress", "cancelled">>,
     <<"completed", "in_progress">>}

\* C6: a status update outside the allowed transitions leaves the case
\* unchanged, so every change of a case's status is an allowed transition and
\* a cancelled case never leaves cancelled.
C6_OnlyAllowedTransitions ==
    [][\A c \in CaseIds :
          cases'[c].status # cases[c].status =>
              <<cases[c].status, cases'[c].status>> \in AllowedTransitions]_vars

\* C7: a successful updateCaseStatus call that performs a valid transition has
\* moved the case to the requested status, has appended a status_changed
\* timeline event for the case and has refreshed lastActivityAt.
C7_ValidTransitionLogged ==
    \A p \in Procs :
        (/\ req[p].op = "updateCaseStatus" /\ req[p].pc = "respond" /\ req[p].res = 200
         /\ <<req[p].caseItem.status, req[p].body.status>> \in AllowedTransitions) =>
            /\ cases[req[p].caseId].status = req[p].body.status
            /\ timeline # <<>>
            /\ timeline[Len(timeline)] =
                   [caseId |-> req[p].caseId, eventType |-> "status_changed",
                    isVisibleToUser |-> TRUE]
            /\ cases[req[p].caseId].lastActivityAt = now

\* C8: every completed -> in_progress transition increments reopenCount by
\* exactly one.
C8_ReopenCounted ==
    [][\A c \in CaseIds :
          (cases[c].status = "completed" /\ cases'[c].status = "in_progress") =>
              cases'[c].reopenCount = cases[c].reopenCount + 1]_vars

StepCount(c) == Len(templates[cases[c].workflowTemplateId].steps)

\* C9: currentStep never decreases and never leaves the range of the steps of
\* the assigned workflow template.
C9_CurrentStepForward ==
    [][\A c \in CaseIds :
          /\ cases'[c].currentStep >= cases[c].currentStep
          /\ cases'[c].currentStep \in 0..StepCount(c)]_vars

\* The classification as the specification states it.
Classify(t, deadline) ==
    IF deadline = NoDate THEN "not_set"
    ELSE IF t > deadline[1] THEN "breached"
    ELSE IF 0 <= deadline[1] - t /\ deadline[1] - t <= 24 THEN "at_risk"
    ELSE "on_time"

\* C10: checkSLAStatus returns not_set without a deadline, breached when
\* now > deadline, at_risk when 0 <= deadline - now <= 24h and on_time otherwise.
C10_Classification ==
    slaResult # <<>> => slaResult[1] = Classify(now, cases["c1"].slaDeadline)

C10_Witness ==
    /\ slaResult = <<"at_risk">>
    /\ cases["c1"].slaDeadline = Date(now + 24)

(***************************************************************************)
(* slaService.updateAllSLAStatuses, the hourly sweep.                      *)
(***************************************************************************)
MaxClock == 50

NOTIFICATION_TYPES == [EMAIL |-> "email", SMS |-> "sms", IN_APP |-> "in_app"]

\* The enum validator of Notification.type: the values of NOTIFICATION_TYPES,
\* compared as written.
ValidNotification(doc) ==
    doc.type \in {NOTIFICATION_TYPES[k] : k \in DOMAIN NOTIFICATION_TYPES}

NewNotificationTemplate(eventTrigger) ==
    [eventTrigger |-> eventTrigger, targetRoles |-> {"employee"}, isActive |-> TRUE]

\* NotificationTemplate.getByEvent: the templates findOne chooses from.
getByEvent(coll, eventTrigger, targetRole) ==
    {t \in coll : t.eventTrigger = eventTrigger /\ t.isActive
                  /\ targetRole \in t.targetRoles}

\* The ids of the Case collection in the order find returns them, the order
\* of insertion.
InsertionOrder == <<"c1", "c2">>

CaseOrder(cs) == SelectSeq(InsertionOrder, LAMBDA c : c \in DOMAIN cs)

SLATerminal_withNew == {"completed", "closed", "cancelled", "new"}

SLATerminal == {"completed", "closed", "cancelled"}

findActiveCases_assigned(cs) ==
    SelectSeq([i \in 1..Len(CaseOrder(cs)) |->
                   [id |-> CaseOrder(cs)[i], item |-> cs[CaseOrder(cs)[i]]]],
              LAMBDA e : /\ e.item.status \notin SLATerminal
                         /\ e.item.slaDeadline # NoDate
                         /\ e.item.employeeId # NULL)

\* Case.find({status: {$nin: [...]}, slaDeadline: {$ne: null}}).
findActiveCases(cs) ==
    SelectSeq([i \in 1..Len(CaseOrder(cs)) |->
                   [id |-> CaseOrder(cs)[i], item |-> cs[CaseOrder(cs)[i]]]],
              LAMBDA e : e.item.status \notin SLATerminal /\ e.item.slaDeadline # NoDate)

SLAEvent(newStatus) == IF newStatus = "at_risk" THEN "sla_warning" ELSE "sla_breach"

\* The result of the sweep is kept in req[p]: res = 200 stands for
\* {updatedCount, alerts}, res = 500 for the result of the catch block,
\* {updatedCount: 0, alerts: [], error}.
updateAllSLAStatuses_catch(p) ==
    req' = [req EXCEPT ![p] = [IdleReq EXCEPT !.op = "updateAllSLAStatuses",
                                              !.pc = "respond", !.res = 500]]

updateAllSLAStatuses_find(p) ==
    /\ Idle(p)
    /\ req' = [req EXCEPT ![p] = [IdleReq EXCEPT !.op = "updateAllSLAStatuses",
                                                 !.pc = "sw_loop",
                                                 !.activeCases = findActiveCases(cases)]]
    /\ UNCHANGED <<docs, cases, timeline, notifications, now, slaResult,
                   ntemplates, internalNotes, workflowTemplates>>

updateAllSLAStatuses_loop_wholeDocument(p) ==
    /\ req[p].pc = "sw_loop"
    /\ UNCHANGED <<docs, timeline, notifications, now, slaResult, ntemplates,
                   internalNotes, workflowTemplates>>
    /\ IF req[p].activeCases = <<>>
       THEN /\ req' = [req EXCEPT ![p].pc = "respond", ![p].res = 200]
            /\ UNCHANGED cases
       ELSE LET caseItem == Head(req[p].activeCases)
                oldStatus == caseItem.item.slaStatus
                newStatus == checkSLAStatus(caseItem.item, now)
            IN IF oldStatus = newStatus
               THEN /\ req' = [req EXCEPT ![p].activeCases = Tail(@)]
                    /\ UNCHANGED cases
               ELSE /\ cases' = [cases EXCEPT ![caseItem.id] =
                                   [caseItem.item EXCEPT !.slaStatus = newStatus]]
                    /\ IF newStatus \in {"at_risk", "breached"}
                       THEN req' = [req EXCEPT
                                ![p].activeCases[1].item.slaStatus = newStatus,
                                ![p].updatedCount = @ + 1,
                                ![p].alerts = @ + 1,
                                ![p].pc = "sw_event"]
                       ELSE req' = [req EXCEPT ![p].activeCases = Tail(@),
                                               ![p].updatedCount = @ + 1]

\* The loop up to its first await: the cases whose status is unchanged are
\* passed over, the first other one is saved.  save() writes the modified
\* path, slaStatus, to the document with the id of caseItem.
updateAllSLAStatuses_loop(p) ==
    /\ req[p].pc = "sw_loop"
    /\ UNCHANGED <<docs, timeline, notifications, now, slaResult, ntemplates,
                   internalNotes, workflowTemplates>>
    /\ IF req[p].activeCases = <<>>
       THEN /\ req' = [req EXCEPT ![p].pc = "respond", ![p].res = 200]
            /\ UNCHANGED cases
       ELSE LET caseItem == Head(req[p].activeCases)
                oldStatus == caseItem.item.slaStatus
                newStatus == checkSLAStatus(caseItem.item, now)
            IN IF oldStatus = newStatus
               THEN /\ req' = [req EXCEPT ![p].activeCases = Tail(@)]
                    /\ UNCHANGED cases
               ELSE /\ cases' = [cases EXCEPT ![caseItem.id].slaStatus = newStatus]
                    /\ IF newStatus \in {"at_risk", "breached"}
                       THEN req' = [req EXCEPT
                                ![p].activeCases[1].item.slaStatus = newStatus,
                                ![p].updatedCount = @ + 1,
                                ![p].alerts = @ + 1,
                                ![p].pc = "sw_event"]
                       ELSE req' = [req EXCEPT ![p].activeCases = Tail(@),
                                               ![p].updatedCount = @ + 1]

\* ActivityTimeline.createEvent for the alert, then the test of employeeId.
updateAllSLAStatuses_event(p) ==
    /\ req[p].pc = "sw_event"
    /\ LET caseItem == Head(req[p].activeCases)
       IN /\ timeline' = createEvent(timeline,
                 [caseId |-> caseItem.id,
                  eventType |-> SLAEvent(caseItem.item.slaStatus),
                  isVisibleToUser |-> FALSE])
          /\ IF caseItem.item.employeeId # NULL
             THEN req' = [req EXCEPT ![p].pc = "sw_getByEvent"]
             ELSE req' = [req EXCEPT ![p].pc = "sw_loop", ![p].activeCases = Tail(@)]
    /\ UNCHANGED <<docs, cases, notifications, now, slaResult, ntemplates,
                   internalNotes, workflowTemplates>>

updateAllSLAStatuses_getByEvent(p) ==
    /\ req[p].pc = "sw_getByEvent"
    /\ LET caseItem == Head(req[p].activeCases)
           template == getByEvent(ntemplates, SLAEvent(caseItem.item.slaStatus),
                                  "employee")
       IN IF template # {}
          THEN req' = [req EXCEPT ![p].pc = "sw_notify"]
          ELSE req' = [req EXCEPT ![p].pc = "sw_loop", ![p].activeCases = Tail(@)]
    /\ UNCHANGED <<docs, cases, timeline, notifications, now, slaResult,
                   ntemplates, internalNotes, workflowTemplates>>

\* Notification.create({type: 'IN_APP', ...}) and template.incrementUsage(),
\* which writes usageCount only.  A document the validator refuses makes
\* create throw, and the throw leaves the loop for the catch block.
updateAllSLAStatuses_notify(p) ==
    /\ req[p].pc = "sw_notify"
    /\ LET caseItem == Head(req[p].activeCases)
           doc == [recipientId |-> caseItem.item.employeeId,
                   type |-> "IN_APP",
                   title |-> SLAEvent(caseItem.item.slaStatus),
                   relatedCaseId |-> caseItem.id]
       IN IF ValidNotification(doc)
          THEN /\ notifications' = Append(notifications, doc)
               /\ req' = [req EXCEPT ![p].pc = "sw_loop", ![p].activeCases = Tail(@)]
          ELSE /\ updateAllSLAStatuses_catch(p)
               /\ UNCHANGED notifications
    /\ UNCHANGED <<docs, cases, timeline, now, slaResult, ntemplates, internalNotes,
                   workflowTemplates>>

updateAllSLAStatuses(p) ==
    \/ updateAllSLAStatuses_find(p)
    \/ updateAllSLAStatuses_loop(p)
    \/ updateAllSLAStatuses_event(p)
    \/ updateAllSLAStatuses_getByEvent(p)
    \/ updateAllSLAStatuses_notify(p)

\* The wall clock of the sweep specifications, in hours.
ClockTick ==
    /\ now < MaxClock
    /\ now' = now + 1
    /\ UNCHANGED <<docs, cases, timeline, notifications, req, slaResult,
                   ntemplates, internalNotes, workflowTemplates>>

\* Two open cases created at hour 0 whose deadline is that of template t1,
\* 48 hours later; each may be assigned, and the employee-facing templates
\* of the two SLA events may exist.
SweepCase(employee) ==
    [InitCase EXCEPT !.employeeId = employee, !.slaDeadline = Date(48),
                     !.slaStatus = "on_time"]

SLATemplates == {NewNotificationTemplate(e) : e \in {"sla_warning", "sla_breach"}}

InitSweep ==
    /\ docs = <<>>
    /\ \E e1 \in {NULL, "emp1"}, e2 \in {NULL, "emp2"} :
           cases = [c \in {"c1", "c2"} |->
                        IF c = "c1" THEN SweepCase(e1) ELSE SweepCase(e2)]
    /\ timeline = <<>>
    /\ notifications = <<>>
    /\ req = [p \in Procs |-> IdleReq]
    /\ now = 0
    /\ slaResult = <<>>
    /\ ntemplates \in {{}, SLATemplates}
    /\ internalNotes = <<>>
    /\ workflowTemplates = templates

\* The cron job: one sweep at a time, the clock moving between the sweeps.
NextSweep ==
    \/ \E p \in Procs : (\A q \in Procs \ {p} : Idle(q))
                        /\ (updateAllSLAStatuses(p) \/ respond(p))
    \/ (\A q \in Procs : Idle(q)) /\ ClockTick

SpecSweep == InitSweep /\ [][NextSweep]_vars

\* Two runs at one clock value: the second starts when the first has
\* returned and nothing else happens in between.
InitTwice ==
    /\ docs = <<>>
    /\ \E e1 \in {NULL, "emp1"}, e2 \in {NULL, "emp2"} :
           cases = [c \in {"c1", "c2"} |->
                        IF c = "c1" THEN SweepCase(e1) ELSE SweepCase(e2)]
    /\ timeline = <<>>
    /\ notifications = <<>>
    /\ req = [p \in Procs |-> IdleReq]
    /\ now \in 0..MaxClock
    /\ slaResult = <<>>
    /\ ntemplates \in {{}, SLATemplates}
    /\ internalNotes = <<>>
    /\ workflowTemplates = templates

Returned(p) == req[p].op = "updateAllSLAStatuses" /\ req[p].pc = "respond"

NextTwice ==
    \/ Idle("p2") /\ ~Returned("p1") /\ updateAllSLAStatuses("p1")
    \/ Returned("p1") /\ updateAllSLAStatuses("p2")
    \/ Returned("p1") /\ Returned("p2") /\ (respond("p1") \/ respond("p2"))

SpecTwice == InitTwice /\ [][NextTwice]_vars

(***************************************************************************)
(* Properties of the sweep.                                                *)
(***************************************************************************)
\* C11: the sweep is idempotent: when it has run and returned, a second run
\* at the same clock value with no other operation in between writes no case,
\* appends no timeline event and creates no notification.
C11_SweepIdempotent ==
    [][Returned("p1") => /\ cases' = cases
                         /\ timeline' = timeline
                         /\ notifications' = notifications]_vars

BreachEvents(c) ==
    {i \in 1..Len(timeline) :
        timeline[i].caseId = c /\ timeline[i].eventType = "sla_breach"}

\* C12: an open case whose deadline is hour 48 is at_risk when a sweep run at
\* hour 30 has returned and breached when a sweep run at hour 49 has returned,
\* and however many sweeps run its timeline holds exactly one sla_breach event
\* once it is breached, and none before.
C12_BreachScenario ==
    \A c \in DOMAIN cases :
        /\ Cardinality(BreachEvents(c)) <= 1
        /\ \A p \in Procs : Returned(p) =>
              /\ now = 30 => cases[c].slaStatus = "at_risk"
              /\ now = 49 => cases[c].slaStatus = "breached"
              /\ Cardinality(BreachEvents(c)) =
                     IF cases[c].slaStatus = "breached" THEN 1 ELSE 0

\* C14: a failure while one case is handled does not end the sweep: the sweep
\* returns only when no further case is left to evaluate, and what it returns
\* are the numbers of updates and alerts it made.
C14_PerCaseIndependence ==
    [][\A p \in Procs :
          (req[p].op = "updateAllSLAStatuses" /\ ~Returned(p) /\ Returned(p)') =>
              /\ Len(req[p].activeCases) <= 1
              /\ req'[p].updatedCount = req[p].updatedCount
              /\ req'[p].alerts = req[p].alerts]_vars

\* The sweep run by the cron job while requests of the assigned employees
\* update the status of the cases.
InitSweepRace ==
    /\ docs = <<>>
    /\ cases = [c \in {"c1", "c2"} |->
                    IF c = "c1" THEN SweepCase("emp1") ELSE SweepCase("emp2")]
    /\ timeline = <<>>
    /\ notifications = <<>>
    /\ req = [p \in Procs |-> IdleReq]
    /\ now = 30
    /\ slaResult = <<>>
    /\ ntemplates \in {{}, SLATemplates}
    /\ internalNotes = <<>>
    /\ workflowTemplates = templates

NextSweepRace ==
    \/ updateAllSLAStatuses("p1")
    \/ updateCaseStatus("p2")
    \/ \E p \in Procs : respond(p)

SpecSweepRace == InitSweepRace /\ [][NextSweepRace]_vars

SLAEvents(c, tl) ==
    {i \in 1..Len(tl) : tl[i].caseId = c
                        /\ tl[i].eventType \in {"sla_warning", "sla_breach"}}

\* C13: a case that updateCaseStatus has moved to completed or cancelled after
\* the sweep read it is not written by the sweep: from then on its slaStatus
\* stays as it is and no SLA event is appended for it.
C13_SweepSkipsTerminal ==
    [][\A c \in DOMAIN cases :
          cases[c].status \in {CASE_STATUS.COMPLETED, CASE_STATUS.CANCELLED} =>
              /\ cases'[c].slaStatus = cases[c].slaStatus
              /\ SLAEvents(c, timeline') = SLAEvents(c, timeline)]_vars

(***************************************************************************)
(* documentVersionController.verifyDocument.                               *)
(***************************************************************************)
VerificationStatusEnum == {"pending", "verified", "rejected"}
VerificationInputs == {"verified", "rejected", "other"}
\* req.body.rejectionReason: absent, or a text.
ReasonInputs == {NULL, "illegible"}

verifyDocument_findVersion(p) ==
    \E u \in CaseActors, v \in VersionIdInputs, vs \in VerificationInputs,
       r \in ReasonInputs :
        /\ Idle(p)
        /\ Len(timeline) < MaxEvents
        /\ UNCHANGED <<docs, cases, timeline, notifications, now, slaResult,
                       ntemplates, internalNotes, workflowTemplates>>
        /\ IF v \notin 1..Len(docs) THEN Answer(p, "verifyDocument", 404)
           ELSE req' = [req EXCEPT ![p] =
                    [IdleReq EXCEPT !.op = "verifyDocument", !.pc = "vf_findCase",
                                    !.user = u, !.versionId = v, !.version = docs[v],
                                    !.verificationStatus = vs, !.rejectionReason = r]]

verifyDocument_findCase(p) ==
    /\ req[p].pc = "vf_findCase"
    /\ UNCHANGED <<docs, cases, timeline, notifications, now, slaResult,
                   ntemplates, internalNotes, workflowTemplates>>
    /\ LET caseItem == cases[req[p].version.caseId]
       IN IF ~isAuthorizedStaff(req[p].user, caseItem)
          THEN Answer(p, "verifyDocument", 403)
          ELSE req' = [req EXCEPT ![p].pc = "vf_save"]

\* The assignments to version and version.save(): the enum of
\* verificationStatus is validated, rejectionReason is assigned when the
\* request carries one.
verifyDocument_save(p) ==
    /\ req[p].pc = "vf_save"
    /\ UNCHANGED <<cases, timeline, notifications, now, slaResult, ntemplates,
                   internalNotes, workflowTemplates>>
    /\ IF req[p].verificationStatus \notin VerificationStatusEnum
       THEN /\ Answer(p, "verifyDocument", 500)
            /\ UNCHANGED docs
       ELSE /\ docs' = [docs EXCEPT ![req[p].versionId] =
                    [@ EXCEPT !.verificationStatus = req[p].verificationStatus,
                              !.verifiedBy = req[p].user,
                              !.rejectionReason =
                                  IF req[p].rejectionReason # NULL
                                  THEN req[p].rejectionReason ELSE @]]
            /\ req' = [req EXCEPT ![p].pc = "vf_event"]

verifyDocument_event(p) ==
    /\ req[p].pc = "vf_event"
    /\ timeline' = createEvent(timeline,
           [caseId |-> req[p].version.caseId,
            eventType |-> IF req[p].verificationStatus = "verified"
                          THEN "document_verified" ELSE "document_rejected",
            isVisibleToUser |-> TRUE])
    /\ req' = [req EXCEPT ![p].pc = "respond", ![p].res = 200]
    /\ UNCHANGED <<docs, cases, notifications, now, slaResult, ntemplates,
                   internalNotes, workflowTemplates>>

verifyDocument(p) ==
    \/ verifyDocument_findVersion(p)
    \/ verifyDocument_findCase(p)
    \/ verifyDocument_save(p)
    \/ verifyDocument_event(p)

(***************************************************************************)
(* employeeController.updateChecklistProgress.                             *)
(***************************************************************************)
StepIdInputs == {1}
ItemIdInputs == {1, 2}

\* findIndex: the first position holding the pair, 0 for -1.
findIndex(checklistProgress, stepId, itemId) ==
    LET hits == {i \in 1..Len(checklistProgress) :
                    /\ checklistProgress[i].stepId = stepId
                    /\ checklistProgress[i].itemId = itemId}
    IN IF hits = {} THEN 0 ELSE CHOOSE i \in hits : \A j \in hits : i <= j

ChecklistEntry(stepId, itemId, isCompleted, user, t) ==
    [stepId |-> stepId, itemId |-> itemId, isCompleted |-> isCompleted,
     completedAt |-> IF isCompleted THEN Date(t) ELSE NoDate,
     completedBy |-> IF isCompleted THEN user ELSE NULL]

updateChecklistProgress_findCase(p) ==
    \E u \in CaseActors, c \in CaseIdInputs, st \in StepIdInputs,
       it \in ItemIdInputs, done \in BOOLEAN :
        /\ Idle(p)
        /\ UNCHANGED <<docs, cases, timeline, notifications, now, slaResult,
                       ntemplates, internalNotes, workflowTemplates>>
        /\ IF c \notin DOMAIN cases THEN Answer(p, "updateChecklistProgress", 404)
           ELSE IF cases[c].employeeId = NULL
                THEN Answer(p, "updateChecklistProgress", 500)
           ELSE IF cases[c].employeeId # u
                THEN Answer(p, "updateChecklistProgress", 403)
           ELSE req' = [req EXCEPT ![p] =
                    [IdleReq EXCEPT !.op = "updateChecklistProgress",
                                    !.pc = "cl_save", !.user = u, !.caseId = c,
                                    !.caseItem = cases[c],
                                    !.item = <<[stepId |-> st, itemId |-> it,
                                                isCompleted |-> done]>>]]

\* caseItem.calculateSLAStatus() called before the save.
updateChecklistProgress_save_sla(p) ==
    /\ req[p].pc = "cl_save"
    /\ LET body == req[p].item[1]
           existingIndex == findIndex(req[p].caseItem.checklistProgress,
                                      body.stepId, body.itemId)
           entry == ChecklistEntry(body.stepId, body.itemId, body.isCompleted,
                                   req[p].user, now)
       IN cases' = [cases EXCEPT ![req[p].caseId].checklistProgress =
                        IF existingIndex > 0 THEN [@ EXCEPT ![existingIndex] = entry]
                        ELSE Append(@, entry),
                                 ![req[p].caseId].__v =
                        IF existingIndex > 0 THEN @ ELSE @ + 1,
                                 ![req[p].caseId].slaStatus =
                        checkSLAStatus(req[p].caseItem, now)]
    /\ req' = [req EXCEPT ![p].pc = "cl_activity"]
    /\ UNCHANGED <<docs, timeline, notifications, now, slaResult, ntemplates,
                   internalNotes, workflowTemplates>>

\* The change of the entry found in the document as read, or the push of a
\* new entry, and caseItem.save(). The save of a changed entry sends
\* $set on checklistProgress.<index> under the condition that __v is the
\* one read, and fails with a VersionError otherwise; the save of a pushed
\* entry sends $push and increments __v.
updateChecklistProgress_save(p) ==
    /\ req[p].pc = "cl_save"
    /\ LET body == req[p].item[1]
           existingIndex == findIndex(req[p].caseItem.checklistProgress,
                                      body.stepId, body.itemId)
           entry == ChecklistEntry(body.stepId, body.itemId, body.isCompleted,
                                   req[p].user, now)
       IN IF existingIndex > 0
          THEN IF cases[req[p].caseId].__v # req[p].caseItem.__v
               THEN /\ req' = [req EXCEPT ![p].pc = "respond", ![p].res = 500]
                    /\ UNCHANGED cases
               ELSE /\ cases' = [cases EXCEPT ![req[p].caseId].checklistProgress =
                                     [@ EXCEPT ![existingIndex] = entry]]
                    /\ req' = [req EXCEPT ![p].pc = "cl_activity"]
          ELSE /\ cases' = [cases EXCEPT ![req[p].caseId].checklistProgress =
                                Append(@, entry),
                                         ![req[p].caseId].__v = @ + 1]
               /\ req' = [req EXCEPT ![p].pc = "cl_activity"]
    /\ UNCHANGED <<docs, timeline, notifications, now, slaResult, ntemplates,
                   internalNotes, workflowTemplates>>

updateChecklistProgress_activity(p) ==
    /\ req[p].pc = "cl_activity"
    /\ cases' = [cases EXCEPT ![req[p].caseId].lastActivityAt = now]
    /\ req' = [req EXCEPT ![p].pc = "respond", ![p].res = 200]
    /\ UNCHANGED <<docs, timeline, notifications, now, slaResult, ntemplates,
                   internalNotes, workflowTemplates>>

updateChecklistProgress(p) ==
    \/ updateChecklistProgress_findCase(p)
    \/ updateChecklistProgress_save(p)
    \/ updateChecklistProgress_activity(p)

(***************************************************************************)
(* adminController.assignCase.                                             *)
(***************************************************************************)
EmployeeIdInputs == {"emp1", "emp2", "user1"}

\* Case.findById and User.findById.
assignCase_findCase(p) ==
    \E c \in CaseIdInputs, e \in EmployeeIdInputs :
        /\ Idle(p)
        /\ Len(notifications) < MaxNotifications
        /\ UNCHANGED <<docs, cases, timeline, notifications, now, slaResult,
                       ntemplates, internalNotes, workflowTemplates>>
        /\ IF c \notin DOMAIN cases THEN Answer(p, "assignCase", 404)
           ELSE IF userRole[e] # "employee" THEN Answer(p, "assignCase", 404)
           ELSE req' = [req EXCEPT ![p] =
                    [IdleReq EXCEPT !.op = "assignCase", !.pc = "as_save",
                                    !.caseId = c, !.caseItem = cases[c],
                                    !.employeeId = e]]

assignCase_save(p) ==
    /\ req[p].pc = "as_save"
    /\ cases' = [cases EXCEPT ![req[p].caseId].employeeId = req[p].employeeId,
                              ![req[p].caseId].assignedAt = Date(now)]
    /\ req' = [req EXCEPT ![p].pc = "as_notify"]
    /\ UNCHANGED <<docs, timeline, notifications, now, slaResult, ntemplates,
                   internalNotes, workflowTemplates>>

assignCase_notify(p) ==
    /\ req[p].pc = "as_notify"
    /\ notifications' = Append(notifications,
           [recipientId |-> req[p].employeeId,
            type |-> NOTIFICATION_TYPES.IN_APP,
            title |-> "New Case Assigned",
            relatedCaseId |-> req[p].caseId])
    /\ req' = [req EXCEPT ![p].pc = "respond", ![p].res = 200]
    /\ UNCHANGED <<docs, cases, timeline, now, slaResult, ntemplates, internalNotes,
                   workflowTemplates>>

assignCase(p) ==
    \/ assignCase_findCase(p)
    \/ assignCase_save(p)
    \/ assignCase_notify(p)

(***************************************************************************)
(* internalNoteController.addInternalNote.                                 *)
(***************************************************************************)
addInternalNote_findCase(p) ==
    \E u \in CaseActors, c \in CaseIdInputs :
        /\ Idle(p)
        /\ Len(internalNotes) < MaxNotes
        /\ Len(timeline) < MaxEvents
        /\ UNCHANGED <<docs, cases, timeline, notifications, now, slaResult,
                       ntemplates, internalNotes, workflowTemplates>>
        /\ IF c \notin DOMAIN cases THEN Answer(p, "addInternalNote", 404)
           ELSE IF ~isAuthorizedStaff(u, cases[c])
                THEN Answer(p, "addInternalNote", 403)
           ELSE req' = [req EXCEPT ![p] =
                    [IdleReq EXCEPT !.op = "addInternalNote", !.pc = "nt_create",
                                    !.user = u, !.caseId = c, !.caseItem = cases[c]]]

addInternalNote_create(p) ==
    /\ req[p].pc = "nt_create"
    /\ UNCHANGED workflowTemplates
    /\ internalNotes' = Append(internalNotes,
           [caseId |-> req[p].caseId, createdBy |-> req[p].user])
    /\ req' = [req EXCEPT ![p].pc = "nt_event"]
    /\ UNCHANGED <<docs, cases, timeline, notifications, now, slaResult, ntemplates>>

addInternalNote_event(p) ==
    /\ req[p].pc = "nt_event"
    /\ timeline' = createEvent(timeline,
           [caseId |-> req[p].caseId, eventType |-> "internal_note_added",
            isVisibleToUser |-> FALSE])
    /\ req' = [req EXCEPT ![p].pc = "nt_activity"]
    /\ UNCHANGED <<docs, cases, notifications, now, slaResult, ntemplates,
                   internalNotes, workflowTemplates>>

addInternalNote_activity(p) ==
    /\ req[p].pc = "nt_activity"
    /\ cases' = [cases EXCEPT ![req[p].caseId].lastActivityAt = now]
    /\ req' = [req EXCEPT ![p].pc = "respond", ![p].res = 201]
    /\ UNCHANGED <<docs, timeline, notifications, now, slaResult, ntemplates,
                   internalNotes, workflowTemplates>>

addInternalNote(p) ==
    \/ addInternalNote_findCase(p)
    \/ addInternalNote_create(p)
    \/ addInternalNote_event(p)
    \/ addInternalNote_activity(p)

(***************************************************************************)
(* slaService.calculateSLADeadline and initializeCaseSLA.                  *)
(***************************************************************************)
\* The duration added in days.
calculateSLADeadline_days(workflowTemplateId, startDate) ==
    IF workflowTemplateId \notin DOMAIN templates THEN NoDate
    ELSE LET durationInHours == templates[workflowTemplateId].totalEstimatedDuration
         IN Date(startDate + 24 * durationInHours)

\* The deadline, or NoDate for null.
calculateSLADeadline(workflowTemplateId, startDate) ==
    IF workflowTemplateId \notin DOMAIN templates THEN NoDate
    ELSE LET durationInHours == templates[workflowTemplateId].totalEstimatedDuration
         IN Date(startDate + durationInHours)

\* The caller hands in a case document it has loaded.
initializeCaseSLA_start(p) ==
    \E c \in DOMAIN cases :
        /\ Idle(p)
        /\ UNCHANGED <<docs, cases, timeline, notifications, now, slaResult,
                       ntemplates, internalNotes, workflowTemplates>>
        /\ req' = [req EXCEPT ![p] =
               [IdleReq EXCEPT !.op = "initializeCaseSLA",
                               !.pc = IF cases[c].workflowTemplateId = NULL
                                      THEN "respond" ELSE "sla_calc",
                               !.res = 200,
                               !.caseId = c, !.caseItem = cases[c]]]

initializeCaseSLA_calc(p) ==
    /\ req[p].pc = "sla_calc"
    /\ UNCHANGED <<docs, cases, timeline, notifications, now, slaResult,
                   ntemplates, internalNotes, workflowTemplates>>
    /\ LET caseItem == req[p].caseItem
           startDate == IF caseItem.assignedAt # NoDate THEN caseItem.assignedAt[1]
                        ELSE caseItem.createdAt
           deadline == calculateSLADeadline(caseItem.workflowTemplateId, startDate)
       IN IF deadline # NoDate
          THEN req' = [req EXCEPT ![p].pc = "sla_save", ![p].deadline = deadline]
          ELSE req' = [req EXCEPT ![p].pc = "respond", ![p].res = 200]

\* WorkflowTemplate.findById for estimatedResolutionTime, then caseItem.save(),
\* which writes the paths whose value differs from the document as handed in.
initializeCaseSLA_save(p) ==
    /\ req[p].pc = "sla_save"
    /\ LET old == req[p].caseItem
       IN cases' = [cases EXCEPT
              ![req[p].caseId].slaDeadline =
                  IF req[p].deadline # old.slaDeadline THEN req[p].deadline ELSE @,
              ![req[p].caseId].slaStatus =
                  IF old.slaStatus # "on_time" THEN "on_time" ELSE @]
    /\ req' = [req EXCEPT ![p].pc = "respond", ![p].res = 200]
    /\ UNCHANGED <<docs, timeline, notifications, now, slaResult, ntemplates,
                   internalNotes, workflowTemplates>>

initializeCaseSLA(p) ==
    \/ initializeCaseSLA_start(p)
    \/ initializeCaseSLA_calc(p)
    \/ initializeCaseSLA_save(p)

(***************************************************************************)
(* The operations on a case and its documents, one request at a time.      *)
(***************************************************************************)
UploadedVersion(c, t, f) ==
    NewDocumentVersion([caseId |-> c, documentType |-> t, version |-> 1,
                        fileUrl |-> f, cloudinaryPublicId |-> f,
                        uploadedBy |-> "user1",
                        metadata |-> [originalFileName |-> f], notes |-> <<>>])

UploadedEvent(c) ==
    [caseId |-> c, eventType |-> "document_uploaded", isVisibleToUser |-> TRUE]

\* Hour 30 of a case created at hour 0, its two required documents uploaded;
\* the case is either still unassigned or assigned to emp1 at hour 0, its
\* workflowTemplateId is absent, dangling (t0) or that of a stored template,
\* and its SLA is either not set or was initialized at hour 0.
InitFrame ==
    /\ docs = <<UploadedVersion("c1", "pan", 1), UploadedVersion("c1", "aadhaar", 2)>>
    /\ \E e \in {NULL, "emp1"}, t \in {NULL, "t0", "t1", "t2"} :
       \E d \in {NoDate, calculateSLADeadline(t, 0)} :
           cases = [c \in CaseIds |->
                        [InitCase EXCEPT !.employeeId = e,
                                         !.assignedAt = IF e = NULL THEN NoDate
                                                        ELSE Date(0),
                                         !.workflowTemplateId = t,
                                         !.slaDeadline = d,
                                         !.slaStatus = IF d = NoDate THEN "not_set"
                                                       ELSE "on_time"]]
    /\ timeline = <<UploadedEvent("c1"), UploadedEvent("c1")>>
    /\ notifications = <<>>
    /\ req = [p \in Procs |-> IdleReq]
    /\ now = 30
    /\ slaResult = <<>>
    /\ ntemplates \in {{}, SLATemplates}
    /\ internalNotes = <<>>
    /\ workflowTemplates = templates

FrameStep(p) ==
    \/ updateCaseStatus(p)
    \/ updateChecklistProgress(p)
    \/ assignCase(p)
    \/ uploadVersion(p)
    \/ verifyDocument(p)
    \/ addInternalNote(p)
    \/ updateAllSLAStatuses(p)
    \/ initializeCaseSLA(p)

\* Two requests, the second arriving when the first has been answered.
NextFrame ==
    \/ Idle("p2") /\ FrameStep("p1")
    \/ req["p1"].pc = "respond" /\ FrameStep("p2")

SpecFrame == InitFrame /\ [][NextFrame]_vars

SLAWriters == {"updateAllSLAStatuses", "initializeCaseSLA"}

\* C15: the stored slaStatus and slaDeadline of a case change only in a step
\* of the sweep, which writes slaStatus alone, or of initializeCaseSLA, which
\* sets on_time together with a deadline; every step of updateCaseStatus,
\* updateChecklistProgress, assignCase, uploadVersion, verifyDocument and
\* addInternalNote leaves both as they are.
C15_SLAWriters ==
    [][\A c \in DOMAIN cases :
          (\/ cases'[c].slaStatus # cases[c].slaStatus
           \/ cases'[c].slaDeadline # cases[c].slaDeadline) =>
              \E p \in Procs :
                  /\ req'[p] # req[p]
                  /\ req[p].op \in SLAWriters
                  /\ req[p].op = "updateAllSLAStatuses" =>
                         cases'[c].slaDeadline = cases[c].slaDeadline
                  /\ req[p].op = "initializeCaseSLA" =>
                         /\ cases'[c].slaStatus = "on_time"
                         /\ cases'[c].slaDeadline # NoDate]_vars

\* The sweep has set at_risk and updateChecklistProgress has then saved.
C15_Witness ==
    /\ Returned("p1")
    /\ req["p2"].op = "updateChecklistProgress"
    /\ req["p2"].pc = "respond"
    /\ req["p2"].res = 200
    /\ cases["c1"].slaStatus = "at_risk"
    /\ cases["c1"].checklistProgress # <<>>

\* The step in which initializeCaseSLA returns.
Initialized(p) ==
    /\ req'[p].op = "initializeCaseSLA"
    /\ req[p].pc # "respond"
    /\ req'[p].pc = "respond"

\* C16 as stated: initializeCaseSLA called at instant T0 on a case whose
\* template has totalEstimatedDuration D sets slaDeadline = T0 + D hours and
\* slaStatus = on_time; with no template, or a template that does not exist,
\* slaDeadline stays null and slaStatus stays not_set.
C16_DeadlineFromNow ==
    [][\A p \in Procs : Initialized(p) =>
          LET caseItem == req'[p].caseItem
              stored == cases'[req'[p].caseId]
          IN IF caseItem.workflowTemplateId \in DOMAIN templates
             THEN /\ stored.slaDeadline =
                        Date(now + templates[caseItem.workflowTemplateId]
                                       .totalEstimatedDuration)
                  /\ stored.slaStatus = "on_time"
             ELSE /\ stored.slaDeadline = NoDate
                  /\ stored.slaStatus = "not_set"]_vars

\* C16 amended: the D hours are counted from the case's assignedAt or, when
\* the case was never assigned, from its createdAt, whatever the instant of
\* the call; the rest is as stated.
C16_DeadlineFromStart ==
    [][\A p \in Procs : Initialized(p) =>
          LET caseItem == req'[p].caseItem
              stored == cases'[req'[p].caseId]
              T0 == IF caseItem.assignedAt # NoDate THEN caseItem.assignedAt[1]
                    ELSE caseItem.createdAt
          IN IF caseItem.workflowTemplateId \in DOMAIN templates
             THEN /\ stored.slaDeadline =
                        Date(T0 + templates[caseItem.workflowTemplateId]
                                      .totalEstimatedDuration)
                  /\ stored.slaStatus = "on_time"
             ELSE /\ stored.slaDeadline = NoDate
                  /\ stored.slaStatus = "not_set"]_vars

\* initializeCaseSLA has returned at hour 30 for a never assigned case created
\* at hour 0 whose template lasts 48 hours.
C16_Witness ==
    \E p \in Procs :
        /\ req[p].op = "initializeCaseSLA"
        /\ req[p].pc = "respond"
        /\ req[p].caseItem.workflowTemplateId = "t1"
        /\ req[p].caseItem.assignedAt = NoDate
        /\ req[p].caseItem.slaDeadline = NoDate
        /\ cases[req[p].caseId].slaDeadline = Date(48)
        /\ now = 30

(***************************************************************************)
(* Failing writes of the side channels.                                    *)
(***************************************************************************)
EventPcs == {"up_event", "rs_event", "vf_event", "nt_event"}

\* ActivityTimeline.createEvent when event.save() rejects: the catch block
\* returns null and the handler goes on as after a stored event.
createEvent_fails(p) ==
    /\ req[p].pc \in EventPcs
    /\ req' = [req EXCEPT
           ![p].pc = CASE req[p].pc = "up_event" -> "up_activity"
                       [] req[p].pc = "nt_event" -> "nt_activity"
                       [] OTHER -> "respond",
           ![p].res = CASE req[p].pc = "rs_event" -> 201
                        [] req[p].pc = "vf_event" -> 200
                        [] OTHER -> @]
    /\ UNCHANGED <<docs, cases, timeline, notifications, now, slaResult,
                   ntemplates, internalNotes, workflowTemplates>>

\* Notification.create of updateCaseStatus when the insert rejects: the
\* handler's catch block passes the error to next(err), the errorHandler
\* answers with an error status.
updateCaseStatus_notifyFails(p) ==
    /\ req[p].pc = "ucs_notify"
    /\ req' = [req EXCEPT ![p].pc = "respond", ![p].res = 500]
    /\ UNCHANGED <<docs, cases, timeline, notifications, now, slaResult,
                   ntemplates, internalNotes, workflowTemplates>>

FailStep(p) ==
    \/ updateCaseStatus(p)
    \/ uploadVersion(p)
    \/ verifyDocument(p)
    \/ restoreVersion(p)
    \/ addInternalNote(p)
    \/ createEvent_fails(p)
    \/ updateCaseStatus_notifyFails(p)

\* Two requests, the second arriving when the first has been answered; every
\* write of a side channel may fail.
NextFail ==
    \/ Idle("p2") /\ FailStep("p1")
    \/ req["p1"].pc = "respond" /\ FailStep("p2")

SpecFail == InitFrame /\ [][NextFail]_vars

SideChannelPcs == EventPcs \cup {"ucs_notify"}

\* C17: a failing timeline append or Notification.create never changes the
\* result of the primary operation: the step of a side channel leaves the
\* documents, the cases and the notes as saved and never ends in an answer
\* other than success.
C17_SideChannelsBestEffort ==
    [][\A p \in Procs :
          (req[p].pc \in SideChannelPcs /\ req'[p] # req[p]) =>
              /\ docs' = docs
              /\ cases' = cases
              /\ internalNotes' = internalNotes
              /\ req'[p].pc = "respond" => req'[p].res \in {200, 201}]_vars

(***************************************************************************)
(* ActivityTimeline.getTimeline and the handlers that call it.             *)
(***************************************************************************)
Reverse(q) == [i \in 1..Len(q) |-> q[Len(q) + 1 - i]]

\* The timeline holds the events in the order of createdAt; find sorts them
\* newest first, skips (page - 1) * limit of them and returns limit of the
\* rest.
getTimeline_unfiltered(tl, caseId, userView, options) ==
    LET sorted == Reverse(SelectSeq(tl, LAMBDA e :
                      /\ e.caseId = caseId
                      /\ options.eventType # NULL => e.eventType = options.eventType))
        skip == (options.page - 1) * options.limit
        last == IF skip + options.limit < Len(sorted) THEN skip + options.limit
                ELSE Len(sorted)
    IN SubSeq(sorted, skip + 1, last)

getTimeline(tl, caseId, userView, options) ==
    LET sorted == Reverse(SelectSeq(tl, LAMBDA e :
                      /\ e.caseId = caseId
                      /\ userView => e.isVisibleToUser = TRUE
                      /\ options.eventType # NULL => e.eventType = options.eventType))
        skip == (options.page - 1) * options.limit
        last == IF skip + options.limit < Len(sorted) THEN skip + options.limit
                ELSE Len(sorted)
    IN SubSeq(sorted, skip + 1, last)

\* req.query of the timeline routes; page defaults to 1 and limit to 50.
OptionInputs ==
    [page : {1, 2}, limit : {1, 50},
     eventType : {NULL, "document_uploaded", "internal_note_added", "sla_warning"}]

\* The end user's handler (userView = true) and the employee's (false) up
\* to the authorization test.
getTimeline_findCase(p) ==
    \E u \in DOMAIN userRole, c \in CaseIdInputs, o \in OptionInputs :
        /\ Idle(p)
        /\ UNCHANGED <<docs, cases, timeline, notifications, now, slaResult,
                       ntemplates, internalNotes, workflowTemplates>>
        /\ IF c \notin DOMAIN cases THEN Answer(p, "getTimeline", 404)
           ELSE IF /\ userRole[u] = "end_user"
                   /\ cases[c].endUserId # u THEN Answer(p, "getTimeline", 403)
           ELSE IF /\ userRole[u] = "employee"
                   /\ cases[c].employeeId # u THEN Answer(p, "getTimeline", 403)
           ELSE req' = [req EXCEPT ![p] =
                    [IdleReq EXCEPT !.op = "getTimeline", !.pc = "tl_find",
                                    !.user = u, !.caseId = c,
                                    !.userView = (userRole[u] = "end_user"),
                                    !.options = <<o>>]]

getTimeline_find(p) ==
    /\ req[p].pc = "tl_find"
    /\ req' = [req EXCEPT ![p].pc = "respond", ![p].res = 200,
                          ![p].data = getTimeline(timeline, req[p].caseId,
                                                  req[p].userView, req[p].options[1])]
    /\ UNCHANGED <<docs, cases, timeline, notifications, now, slaResult,
                   ntemplates, internalNotes, workflowTemplates>>

getTimelineHandler(p) ==
    \/ getTimeline_findCase(p)
    \/ getTimeline_find(p)

ReadStep(p) ==
    \/ addInternalNote(p)
    \/ verifyDocument(p)
    \/ updateAllSLAStatuses(p)
    \/ getTimelineHandler(p)

\* Two requests, the second arriving when the first has been answered.
NextRead ==
    \/ Idle("p2") /\ ReadStep("p1")
    \/ req["p1"].pc = "respond" /\ ReadStep("p2")

SpecRead == InitFrame /\ [][NextRead]_vars

InternalEventTypes ==
    {"internal_note_added", "checklist_updated", "sla_warning", "sla_breach"}

\* C18: whatever the operations before and whatever page, limit and
\* eventType are asked for, the end user's view of a timeline holds no event
\* with isVisibleToUser = false, so no internal note, checklist update, SLA
\* warning or SLA breach, while the staff view, asked for a page that has
\* room for them, holds all events of the case that match the eventType
\* filter, newest first.
C18_UserViewHidesInternal ==
    [][\A p \in Procs : (req[p].pc = "tl_find" /\ req'[p].pc = "respond") =>
          LET data == req'[p].data
              o == req[p].options[1]
              matching == SelectSeq(timeline, LAMBDA e :
                              /\ e.caseId = req[p].caseId
                              /\ o.eventType # NULL => e.eventType = o.eventType)
          IN IF req[p].userView
             THEN \A i \in 1..Len(data) :
                      /\ data[i].isVisibleToUser = TRUE
                      /\ data[i].eventType \notin InternalEventTypes
             ELSE (o.page = 1 /\ o.limit >= Len(matching)) =>
                      data = Reverse(matching)]_vars

\* The end user has been given a page of a timeline that holds an event
\* hidden from users.
C18_Witness ==
    \E p \in Procs :
        /\ req[p].op = "getTimeline"
        /\ req[p].pc = "respond"
        /\ req[p].userView
        /\ req[p].data # <<>>
        /\ \E i \in 1..Len(timeline) :
               /\ timeline[i].caseId = req[p].caseId
               /\ timeline[i].isVisibleToUser = FALSE

(***************************************************************************)
(* Uploads for services with and without a list of required documents.     *)
(***************************************************************************)
InitUpload ==
    /\ docs = <<>>
    /\ \E sv \in DOMAIN services :
           cases = [c \in CaseIds |-> [InitCase EXCEPT !.serviceId = sv]]
    /\ timeline = <<>>
    /\ notifications = <<>>
    /\ req = [p \in Procs |-> IdleReq]
    /\ now = 0
    /\ slaResult = <<>>
    /\ ntemplates = {}
    /\ internalNotes = <<>>
    /\ workflowTemplates = templates

NextUpload ==
    \/ \E p \in Procs : (\A q \in Procs \ {p} : Idle(q))
                        /\ (uploadVersion(p) \/ respond(p))
    \/ (\A q \in Procs : Idle(q)) /\ Tick

SpecUpload == InitUpload /\ [][NextUpload]_vars

\* The first step of an uploadVersion request that names a document type.
UploadArrives(p) ==
    /\ Idle(p)
    /\ req'[p].op = "uploadVersion"
    /\ req'[p].documentType # NULL

Refused(p) ==
    /\ req'[p].pc = "respond"
    /\ req'[p].res = 400
    /\ docs' = docs
    /\ timeline' = timeline
    /\ cases' = cases

\* C19 as stated: uploadVersion refuses every documentType that is not in the
\* documentsRequired of the case's service, whatever the list holds, the
\* empty list included, and the refusal creates no row, changes no row,
\* appends no event and leaves lastActivityAt as it is.
C19_RejectsUnlistedType ==
    [][\A p \in Procs : UploadArrives(p) =>
          LET list == services[cases[req'[p].caseId].serviceId].documentsRequired
          IN req'[p].documentType \notin SeqToSet(list) => Refused(p)]_vars

\* C19 amended: the refusal is that of a non-empty list; when the list is
\* empty every documentType is accepted.
C19_RejectsUnlistedTypeOfNonEmptyList ==
    [][\A p \in Procs : UploadArrives(p) =>
          LET list == services[cases[req'[p].caseId].serviceId].documentsRequired
          IN IF list # <<>>
             THEN req'[p].documentType \notin SeqToSet(list) => Refused(p)
             ELSE req'[p].pc # "respond"]_vars

\* An upload of a type outside the list pan, aadhaar has been refused after
\* an earlier upload was stored.
C19_Witness ==
    \E p \in Procs :
        /\ req[p].op = "uploadVersion"
        /\ req[p].pc = "respond"
        /\ req[p].res = 400
        /\ req[p].documentType = "other"
        /\ req[p].data = <<"pan", "aadhaar">>
        /\ Len(docs) > 0

(***************************************************************************)
(* Verification of uploaded documents.                                     *)
(***************************************************************************)
VerifyStep(p) == uploadVersion(p) \/ verifyDocument(p)

\* Two requests, the second arriving when the first has been answered.
NextVerify ==
    \/ Idle("p2") /\ VerifyStep("p1")
    \/ req["p1"].pc = "respond" /\ VerifyStep("p2")

SpecVerify == InitFrame /\ [][NextVerify]_vars

\* C20: verifyDocument with the outcome rejected and no reason is refused and
\* leaves verificationStatus, verifiedBy and rejectionReason as they are, so
\* every version whose verificationStatus is rejected has a rejectionReason.
C20_RejectedHasReason ==
    \A i \in 1..Len(docs) :
        docs[i].verificationStatus = "rejected" => docs[i].rejectionReason # NULL

(***************************************************************************)
(* Soft deletion among uploads, restores and verifications.                 *)
(***************************************************************************)
DeleteStep(p) ==
    \/ uploadVersion(p)
    \/ restoreVersion(p)
    \/ deleteVersion(p)
    \/ verifyDocument(p)

\* Two requests, the second arriving when the first has been answered.
NextDelete ==
    \/ Idle("p2") /\ DeleteStep("p1")
    \/ req["p1"].pc = "respond" /\ DeleteStep("p2")

SpecDelete == InitFrame /\ [][NextDelete]_vars

HighestVersion(c, t) ==
    IF RowsOf(docs, c, t) = {} THEN 0
    ELSE MaxOf({docs[i].version : i \in RowsOf(docs, c, t)})

\* C21: the save of deleteVersion sets the status of the target row to deleted
\* and changes no other row; a deleted row stays deleted through every later
\* upload, restore, verification and deletion; and a new row of a pair gets
\* the highest version number among the rows of the pair, the deleted ones
\* included, plus one.
C21_DeletionTerminalAndLocal ==
    [][/\ \A p \in Procs : (req[p].pc = "dl_save" /\ req'[p].pc = "respond") =>
              docs' = [docs EXCEPT ![req[p].versionId].status = "deleted"]
       /\ \A i \in 1..Len(docs) :
              docs[i].status = "deleted" => docs'[i].status = "deleted"
       /\ Len(docs') = Len(docs) + 1 =>
              LET row == docs'[Len(docs')]
              IN row.version = HighestVersion(row.caseId, row.documentType) + 1]_vars

\* The highest version of a pair is a deleted row and the upload after the
\* deletion has been stored with the next number.
C21_Witness ==
    \E i, j \in 1..Len(docs) :
        /\ docs[i].status = "deleted"
        /\ docs[j].caseId = docs[i].caseId
        /\ docs[j].documentType = docs[i].documentType
        /\ docs[j].version = docs[i].version + 1
        /\ docs[j].status = "active"
        /\ \E p \in Procs : /\ req[p].op = "uploadVersion"
                            /\ req[p].pc = "respond"
                            /\ req[p].res = 201

InitChecklist ==
    /\ docs = <<>>
    /\ \E cp \in {<<>>, <<ChecklistEntry(1, 1, FALSE, "emp1", 0)>>,
                  <<ChecklistEntry(1, 1, TRUE, "emp1", 0)>>} :
           cases = [c \in CaseIds |-> [InitCase EXCEPT !.checklistProgress = cp]]
    /\ timeline = <<>>
    /\ notifications = <<>>
    /\ req = [p \in Procs |-> IdleReq]
    /\ now = 0
    /\ slaResult = <<>>
    /\ ntemplates = {}
    /\ internalNotes = <<>>
    /\ workflowTemplates = templates

NextChecklist ==
    \/ \E p \in Procs : updateChecklistProgress(p)
    \/ Tick

SpecChecklist == InitChecklist /\ [][NextChecklist]_vars

EntriesOf(checklistProgress, stepId, itemId) ==
    {i \in 1..Len(checklistProgress) :
        /\ checklistProgress[i].stepId = stepId
        /\ checklistProgress[i].itemId = itemId}

\* C23: the checklist of a case holds at most one entry for a pair
\* (stepId, itemId), whatever the sequence and the interleaving of
\* updateChecklistProgress calls, and in every entry completedAt and
\* completedBy are set exactly when isCompleted is true.
C23_ChecklistKeyedByPair ==
    \A c \in DOMAIN cases :
        LET cp == cases[c].checklistProgress
        IN /\ \A st \in StepIdInputs, it \in ItemIdInputs :
                  Cardinality(EntriesOf(cp, st, it)) <= 1
           /\ \A i \in 1..Len(cp) :
                  /\ cp[i].isCompleted <=> cp[i].completedAt # NoDate
                  /\ cp[i].isCompleted <=> cp[i].completedBy # NULL

\* Two requests on the checklist, the second arriving when the first has
\* been answered, the clock advancing before and between them.
NextChecklistSeq ==
    \/ Idle("p2") /\ updateChecklistProgress("p1")
    \/ req["p1"].pc = "respond" /\ updateChecklistProgress("p2")
    \/ Idle("p2") /\ (Idle("p1") \/ req["p1"].pc = "respond") /\ Tick

SpecChecklistSeq == InitChecklist /\ [][NextChecklistSeq]_vars

MarkedComplete(p) ==
    /\ req[p].op = "updateChecklistProgress"
    /\ req[p].pc = "respond"
    /\ req[p].res = 200
    /\ req[p].item[1].isCompleted

ChecklistEvents(c) ==
    {i \in 1..Len(timeline) :
        /\ timeline[i].caseId = c
        /\ timeline[i].eventType = "checklist_updated"
        /\ ~timeline[i].isVisibleToUser}

\* C24: when the same (stepId, itemId) has been marked complete by two calls,
\* one after the other, the checklist holds one entry for the pair, completed
\* and with a completedAt, the timeline holds one internal checklist_updated
\* event for each of the two calls, and lastActivityAt is the time of the
\* second call.
C24_CompleteTwice ==
    (/\ MarkedComplete("p1") /\ MarkedComplete("p2")
     /\ req["p1"].item = req["p2"].item /\ req["p1"].caseId = req["p2"].caseId) =>
        LET c == req["p2"].caseId
            cp == cases[c].checklistProgress
            hits == EntriesOf(cp, req["p2"].item[1].stepId, req["p2"].item[1].itemId)
        IN /\ Cardinality(hits) = 1
           /\ \A i \in hits : cp[i].isCompleted /\ cp[i].completedAt # NoDate
           /\ cases[c].lastActivityAt = now
           /\ Cardinality(ChecklistEvents(c)) = 2

\* C25: of two overlapping updateChecklistProgress calls on one case, every
\* write is accepted by the store, leaves the entries of the other pairs as
\* they are, and makes its own value the stored value of its pair: two calls
\* for different items both take effect, and two calls for the same item
\* leave the value of the call that wrote last.
C25_ConcurrentUpdates ==
    [][\A p \in Procs :
          (req[p].pc = "cl_save" /\ req'[p] # req[p]) =>
              LET body == req[p].item[1]
                  c == req[p].caseId
                  before == cases[c].checklistProgress
                  after == cases'[c].checklistProgress
                  idx == findIndex(after, body.stepId, body.itemId)
              IN /\ req'[p].pc = "cl_activity"
                 /\ idx > 0
                 /\ after[idx] = ChecklistEntry(body.stepId, body.itemId,
                                                body.isCompleted, req[p].user, now)
                 /\ \A i \in 1..Len(before) :
                        (before[i].stepId # body.stepId \/ before[i].itemId # body.itemId)
                            => after[i] = before[i]]_vars

(***************************************************************************)
(* Workflow templates: WorkflowTemplate and the handlers that store one.   *)
(***************************************************************************)
TemplateIds == {"t1", "t2"}
TemplateIdInputs == TemplateIds \cup {"t0"}

\* req.body.steps as the estimatedDuration of each step, in hours.
StepsInputs == {<<>>, <<24>>, <<24, 8>>}

RECURSIVE SumDurations(_)
\* this.steps.reduce((total, step) => total + (step.estimatedDuration || 0), 0)
SumDurations(steps) ==
    IF steps = <<>> THEN 0 ELSE steps[1] + SumDurations(Tail(steps))

\* The pre('save') hook.
preSave(template) ==
    IF Len(template.steps) > 0
    THEN [template EXCEPT !.totalEstimatedDuration = SumDurations(template.steps)]
    ELSE template

\* A new WorkflowTemplate document with the schema's defaults.
NewWorkflowTemplate(steps) ==
    [steps |-> steps, totalEstimatedDuration |-> 0, isActive |-> TRUE]

NewTemplateId == CHOOSE t \in TemplateIds : t \notin DOMAIN workflowTemplates

\* WorkflowTemplate.create(doc): the hook, then the insert.
createWorkflowTemplate(doc) ==
    workflowTemplates' =
        [t \in DOMAIN workflowTemplates \cup {NewTemplateId} |->
            IF t = NewTemplateId THEN preSave(doc) ELSE workflowTemplates[t]]

TemplateUnchanged ==
    UNCHANGED <<docs, cases, timeline, notifications, now, slaResult,
                ntemplates, internalNotes>>

createTemplate_findService(p) ==
    \E s \in DOMAIN services \cup {"s0"}, steps \in StepsInputs :
        /\ Idle(p)
        /\ DOMAIN workflowTemplates # TemplateIds
        /\ TemplateUnchanged /\ UNCHANGED workflowTemplates
        /\ IF s \notin DOMAIN services THEN Answer(p, "createTemplate", 404)
           ELSE req' = [req EXCEPT ![p] =
                    [IdleReq EXCEPT !.op = "createTemplate", !.pc = "ct_create",
                                    !.steps = <<steps>>]]

createTemplate_create(p) ==
    /\ req[p].pc = "ct_create"
    /\ DOMAIN workflowTemplates # TemplateIds
    /\ createWorkflowTemplate(NewWorkflowTemplate(req[p].steps[1]))
    /\ req' = [req EXCEPT ![p].pc = "respond", ![p].res = 201,
                          ![p].templateId = NewTemplateId]
    /\ TemplateUnchanged

createTemplate(p) == createTemplate_findService(p) \/ createTemplate_create(p)

\* req.body of updateTemplate: with steps, or without.
updateTemplate_findOld(p) ==
    \E t \in TemplateIdInputs, steps \in {<<>>} \cup {<<s>> : s \in StepsInputs} :
        /\ Idle(p)
        /\ TemplateUnchanged /\ UNCHANGED workflowTemplates
        /\ IF t \notin DOMAIN workflowTemplates THEN Answer(p, "updateTemplate", 404)
           ELSE req' = [req EXCEPT ![p] =
                    [IdleReq EXCEPT !.op = "updateTemplate", !.pc = "ut_update",
                                    !.templateId = t, !.steps = steps,
                                    !.template = <<workflowTemplates[t]>>]]

\* WorkflowTemplate.findByIdAndUpdate(id, req.body, {new, runValidators}):
\* $set of the fields of the body, no document middleware.
updateTemplate_update(p) ==
    /\ req[p].pc = "ut_update"
    /\ workflowTemplates' =
           IF req[p].steps = <<>> THEN workflowTemplates
           ELSE [workflowTemplates EXCEPT ![req[p].templateId].steps = req[p].steps[1]]
    /\ req' = [req EXCEPT ![p].pc = "respond", ![p].res = 200]
    /\ TemplateUnchanged

updateTemplate(p) == updateTemplate_findOld(p) \/ updateTemplate_update(p)

deleteTemplate_find(p) ==
    \E t \in TemplateIdInputs :
        /\ Idle(p)
        /\ TemplateUnchanged /\ UNCHANGED workflowTemplates
        /\ IF t \notin DOMAIN workflowTemplates THEN Answer(p, "deleteTemplate", 404)
           ELSE req' = [req EXCEPT ![p] =
                    [IdleReq EXCEPT !.op = "deleteTemplate", !.pc = "dt_save",
                                    !.templateId = t,
                                    !.template = <<workflowTemplates[t]>>]]

\* template.isActive = false; template.save(): the hook runs on the document
\* as read, and the save writes the paths that differ from it.
deleteTemplate_save(p) ==
    /\ req[p].pc = "dt_save"
    /\ LET old == req[p].template[1]
           new == preSave([old EXCEPT !.isActive = FALSE])
           stored == workflowTemplates[req[p].templateId]
       IN workflowTemplates' = [workflowTemplates EXCEPT ![req[p].templateId] =
              [stored EXCEPT !.isActive = FALSE,
                             !.totalEstimatedDuration =
                                 IF new.totalEstimatedDuration # old.totalEstimatedDuration
                                 THEN new.totalEstimatedDuration ELSE @]]
    /\ req' = [req EXCEPT ![p].pc = "respond", ![p].res = 200]
    /\ TemplateUnchanged

deleteTemplate(p) == deleteTemplate_find(p) \/ deleteTemplate_save(p)

cloneTemplate_find(p) ==
    \E t \in TemplateIdInputs :
        /\ Idle(p)
        /\ DOMAIN workflowTemplates # TemplateIds
        /\ TemplateUnchanged /\ UNCHANGED workflowTemplates
        /\ IF t \notin DOMAIN workflowTemplates THEN Answer(p, "cloneTemplate", 404)
           ELSE req' = [req EXCEPT ![p] =
                    [IdleReq EXCEPT !.op = "cloneTemplate", !.pc = "cn_create",
                                    !.templateId = t,
                                    !.template = <<workflowTemplates[t]>>]]

\* WorkflowTemplate.create({..., steps: originalTemplate.steps, ...}).
cloneTemplate_create(p) ==
    /\ req[p].pc = "cn_create"
    /\ DOMAIN workflowTemplates # TemplateIds
    /\ createWorkflowTemplate(NewWorkflowTemplate(req[p].template[1].steps))
    /\ req' = [req EXCEPT ![p].pc = "respond", ![p].res = 201,
                          ![p].templateId = NewTemplateId]
    /\ TemplateUnchanged

cloneTemplate(p) == cloneTemplate_find(p) \/ cloneTemplate_create(p)

\* The template collection starts empty; the requests of the administrators
\* are handled one at a time.
InitTemplate ==
    /\ docs = <<>>
    /\ cases = [c \in CaseIds |-> InitCase]
    /\ timeline = <<>>
    /\ notifications = <<>>
    /\ req = [p \in Procs |-> IdleReq]
    /\ now = 0
    /\ slaResult = <<>>
    /\ ntemplates = {}
    /\ internalNotes = <<>>
    /\ workflowTemplates = [t \in {} |-> NewWorkflowTemplate(<<>>)]

TemplateStep(p) ==
    \/ createTemplate(p)
    \/ updateTemplate(p)
    \/ deleteTemplate(p)
    \/ cloneTemplate(p)

NextTemplate ==
    \E p \in Procs : (\A q \in Procs \ {p} : Idle(q))
                     /\ (TemplateStep(p) \/ respond(p))

SpecTemplate == InitTemplate /\ [][NextTemplate]_vars

StoresTemplate(p) == req[p].pc \in {"ct_create", "ut_update", "dt_save", "cn_create"}

\* C26: after every operation that stores a workflow template, the stored
\* totalEstimatedDuration of that template is the sum of the
\* estimatedDuration of its steps.
C26_TotalIsSumOfSteps ==
    [][\A p \in Procs :
          (StoresTemplate(p) /\ req'[p].pc = "respond" /\ req'[p].res \in {200, 201}) =>
              LET template == workflowTemplates'[req'[p].templateId]
              IN template.totalEstimatedDuration = SumDurations(template.steps)]_vars

AlertsOf(c) == {i \in 1..Len(notifications) : notifications[i].relatedCaseId = c}

\* C27: when a sweep has returned, every case with an assigned employee has
\* one alert notification, addressed to that employee, for each change of its
\* slaStatus that the sweeps made (each change has its sla_warning or
\* sla_breach event), and a case with no assigned employee has none.
C27_OneAlertPerTransition ==
    \A p \in Procs : Returned(p) =>
        \A c \in DOMAIN cases :
            /\ Cardinality(AlertsOf(c)) =
                   IF cases[c].employeeId # NULL
                   THEN Cardinality(SLAEvents(c, timeline)) ELSE 0
            /\ \A i \in AlertsOf(c) : notifications[i].recipientId = cases[c].employeeId

\* Two process instances whose cron jobs run the sweep at the same hour.
NextTwoSweeps == \E p \in Procs : updateAllSLAStatuses(p)

SpecTwoSweeps == InitSweepRace /\ [][NextTwoSweeps]_vars

\* C28: with two sweeps running at the same hour over cases that were
\* on_time, the one change of a case's slaStatus has at most one SLA event
\* and at most one alert notification, and exactly one event once both
\* sweeps have returned.
C28_OneEventPerTransition ==
    \A c \in DOMAIN cases :
        /\ Cardinality(SLAEvents(c, timeline)) <= 1
        /\ Cardinality(AlertsOf(c)) <= 1
        /\ (Returned("p1") /\ Returned("p2") /\ cases[c].slaStatus # "on_time")
               => Cardinality(SLAEvents(c, timeline)) = 1

\* The sweep while one request changes the status, the checklist or the
\* assignment of a case.
NextSweepWrite ==
    \/ updateAllSLAStatuses("p1")
    \/ updateCaseStatus("p2")
    \/ updateChecklistProgress("p2")
    \/ assignCase("p2")

SpecSweepWrite == InitSweepRace /\ [][NextSweepWrite]_vars

\* C29: a step of the sweep changes no stored field of a case other than
\* slaStatus: what updateCaseStatus, updateChecklistProgress or assignCase
\* wrote after the sweep read the case is still stored after the sweep's
\* save.
C29_SweepWritesOnlySlaStatus ==
    [][\A p \in Procs :
          (req[p].op = "updateAllSLAStatuses" /\ req'[p] # req[p]) =>
              \A c \in DOMAIN cases :
                  [cases'[c] EXCEPT !.slaStatus = cases[c].slaStatus] = cases[c]]_vars

C29_Witness ==
    \E p \in Procs :
        /\ req[p].pc = "sw_event"
        /\ LET caseItem == Head(req[p].activeCases)
               stored == cases[caseItem.id]
           IN /\ stored.slaStatus = caseItem.item.slaStatus
              /\ stored.lastActivityAt # caseItem.item.lastActivityAt
              /\ \/ stored.status # caseItem.item.status
                 \/ stored.checklistProgress # caseItem.item.checklistProgress
                 \/ stored.employeeId # caseItem.item.employeeId

\* The hour of the deadline, hour 48, the cases stored as at_risk by the
\* sweeps that ran before.
InitLive ==
    /\ docs = <<>>
    /\ \E e1 \in {NULL, "emp1"}, e2 \in {NULL, "emp2"} :
           cases = [c \in {"c1", "c2"} |->
                        IF c = "c1" THEN [SweepCase(e1) EXCEPT !.slaStatus = "at_risk"]
                        ELSE [SweepCase(e2) EXCEPT !.slaStatus = "at_risk"]]
    /\ timeline = <<>>
    /\ notifications = <<>>
    /\ req = [p \in Procs |-> IdleReq]
    /\ now = 48
    /\ slaResult = <<>>
    /\ ntemplates \in {{}, SLATemplates}
    /\ internalNotes = <<>>
    /\ workflowTemplates = templates

\* The cron jobs of two process instances and the clock.
NextLive ==
    \/ \E p \in Procs : updateAllSLAStatuses(p) \/ respond(p)
    \/ ClockTick

\* Every cron job keeps starting sweeps and a started sweep keeps running.
SpecLive ==
    /\ InitLive
    /\ [][NextLive]_vars
    /\ \A p \in Procs : WF_vars(updateAllSLAStatuses(p) \/ respond(p))

\* C30: a case that has a deadline and stays open is, once the clock has
\* passed the deadline and while the sweeps keep running, eventually stored
\* as breached and stays breached from then on.
C30_BreachIsLive ==
    \A c \in {"c1", "c2"} :
        (now > cases[c].slaDeadline[1]) ~> [](cases[c].slaStatus = "breached")

C30_Witness ==
    /\ \E p \in Procs : Returned(p)
    /\ \A c \in DOMAIN cases :
           /\ now > cases[c].slaDeadline[1]
           /\ cases[c].slaStatus = "breached"
           /\ cases[c].status \notin SLATerminal

====
